---------------------------- MODULE Spec2Model ----------------------------
(***************************************************************************)
(* hearme: peer-to-peer streaming of one application's audio.              *)
(*                                                                         *)
(* The model follows src/hearme/src-tauri/src: the session orchestrator    *)
(* (app.rs), the transport (transport.rs), the codec wrapper (codec.rs)    *)
(* and the capture backends (capture/*.rs).  Handlers and tasks are cut at *)
(* their await points: one action is one poll of a future, from one        *)
(* suspension point to the next.                                           *)
(*                                                                         *)
(* Specifications:                                                         *)
(*   Spec      the two session cells with their pipelines, driven by UI    *)
(*             commands, under one of a few environments (Scenarios);      *)
(*   FairSpec  Spec with the fairness the tokio runtime and the OS threads *)
(*             give to tasks that can run;                                 *)
(*   SpecWire  one running Share streaming to one running Listen: the data *)
(*             path encode task -> bus -> writer -> wire -> receive task.  *)
(***************************************************************************)
EXTENDS Integers, Sequences, FiniteSets, TLC

(***************************************************************************)
(* Bounds of the model.                                                    *)
(***************************************************************************)
\* share sessions (successful ShareSession::start) in one behaviour of Spec
MaxShares == 2
\* listen sessions (successful ListenSession::connect) in one behaviour
MaxListens == 2
\* frames the captures emit in one behaviour of Spec
MaxFrames == 2
\* chunks a foreign sharer writes to its streams in one behaviour of Spec
MaxChunks == 2
\* frames the encode task has encoded when a behaviour of SpecWire begins,
\* the writer having sent none of their packets yet
PreStream == 62
\* frames waiting in the frame channel when a behaviour of SpecWire begins:
\* with PreStream, more packets than the broadcast bus holds, so that the
\* writer lags
MaxStream == 2
\* unread bytes a stream buffers before write_all suspends (flow control)
WireWindow == 4002
\* packets the second listener's writer has yet to send when a behaviour
\* of SpecFan begins
FanBacklog == 2
\* digits of the longest address a ticket of SpecTicket holds
MaxAddrLen == 3
\* applications the OS enumerates for list_sources in SpecSources
MaxApps == 3
\* OS capture callbacks in a behaviour of SpecReblock
MaxCallbacks == 3
\* frames waiting in the frame channel when a behaviour of SpecChan begins
ChanBacklog == 63
\* packets the decode task decodes in a behaviour of SpecRing
MaxDecodes == 2
\* calls of the output callback in a behaviour of SpecRing
MaxPlays == 2

(***************************************************************************)
(* Program constants.                                                      *)
(***************************************************************************)
\* mpsc::channel::<Vec<f32>>(64): the frame channel of every backend
FrameChanCap == 64
\* mpsc::channel::<Vec<u8>>(64): the listener's packet channel
PacketChanCap == 64
\* broadcast::channel::<Arc<Vec<u8>>>(50)
BusCapacity == 50
\* const MAX_PACKET_SIZE: usize = 4000
MAX_PACKET_SIZE == 4000
\* capture/mod.rs: interleaved samples of one 20 ms frame
SAMPLES_PER_FRAME == 1920
\* playback.rs: SAMPLE_RATE * CHANNELS / 5, the ring buffer's size in samples
RING_CAPACITY == 19200

\* UI invocations that may be in flight at the same time
Callers == {"c1", "c2"}
\* #[cfg(target_os = ...)]: the build is for exactly one of these
Platforms == {"linux", "macos", "windows"}
Shares == 1..MaxShares
Listens == 1..MaxListens
None == 0
\* a tokio Mutex nobody holds
Free == "free"

Min(a, b) == IF a < b THEN a ELSE b
Max(a, b) == IF a > b THEN a ELSE b

(***************************************************************************)
(* Byte strings.  A byte string is kept run-length encoded: a sequence of  *)
(* runs <<b, n>>, n >= 1 copies of the byte b, no two neighbouring runs of *)
(* the same byte.  Two byte strings are equal iff their encodings are; no  *)
(* packet boundary survives in the encoding.                               *)
(***************************************************************************)
Empty == <<>>

\* n copies of byte b
Rep(b, n) == IF n = 0 THEN <<>> ELSE << <<b, n>> >>

RECURSIVE BLen(_)
BLen(bs) == IF bs = <<>> THEN 0 ELSE bs[1][2] + BLen(Tail(bs))

\* concatenation
BCat(x, y) ==
    IF x = <<>> THEN y
    ELSE IF y = <<>> THEN x
    ELSE IF x[Len(x)][1] = y[1][1]
         THEN SubSeq(x, 1, Len(x) - 1)
              \o << <<y[1][1], x[Len(x)][2] + y[1][2]>> >>
              \o Tail(y)
         ELSE x \o y

\* the first n bytes (all of bs when it is shorter)
RECURSIVE BTake(_, _)
BTake(bs, n) ==
    IF n = 0 \/ bs = <<>> THEN <<>>
    ELSE IF bs[1][2] >= n THEN << <<bs[1][1], n>> >>
    ELSE <<bs[1]>> \o BTake(Tail(bs), n - bs[1][2])

\* bs without its first n bytes
RECURSIVE BDrop(_, _)
BDrop(bs, n) ==
    IF n = 0 \/ bs = <<>> THEN bs
    ELSE IF bs[1][2] > n THEN << <<bs[1][1], bs[1][2] - n>> >> \o Tail(bs)
    ELSE BDrop(Tail(bs), n - bs[1][2])

\* the i-th byte, 1 <= i <= BLen(bs)
RECURSIVE BAt(_, _)
BAt(bs, i) == IF i <= bs[1][2] THEN bs[1][1] ELSE BAt(Tail(bs), i - bs[1][2])

(***************************************************************************)
(* transport.rs 108-110, 169: the length prefix.                           *)
(***************************************************************************)
\* faulty variant of the cast: `as u8`
AsU8(n) == n % 256

\* packet.len() as u16
AsU16(n) == n % 65536

\* len.to_le_bytes()
ToLeBytes(v) == BCat(Rep(v % 256, 1), Rep((v \div 256) % 256, 1))

\* faulty variant of the decoding: the low byte alone
FromLowByte(bs) == BAt(bs, 1)

\* u16::from_le_bytes(len_buf) as usize
FromLeBytes(bs) == BAt(bs, 1) + 256 * BAt(bs, 2)

(***************************************************************************)
(* codec.rs 30-41: Encoder::encode.  A frame is named by its number; the   *)
(* Opus library is a function from the frame to the size it encodes it to. *)
(***************************************************************************)
\* the sizes libopus would encode successive frames to, given room
OpusSizes == <<1, 300, 4000, 4001, 2>>

\* self.inner.encode_float(pcm, &mut output): the library writes no more
\* than output.len() bytes; it returns the length, or an error (negative)
EncodeFloat(f, room) ==
    LET want == OpusSizes[(f % Len(OpusSizes)) + 1]
    IN  IF want <= room THEN want ELSE -1

\* the bytes of the packet frame f encodes to: n bytes that name the frame
PacketBytes(f, n) == Rep(f % 256, n)

\* encode(): output = vec![0u8; MAX_PACKET_SIZE]; encode_float; truncate(len)
\* A record: ok, and the packet when ok.
Encode(f) ==
    LET len == EncodeFloat(f, MAX_PACKET_SIZE)
    IN  IF len < 0 THEN [ok |-> FALSE, packet |-> Empty]
        ELSE [ok |-> TRUE, packet |-> PacketBytes(f, len)]

(***************************************************************************)
(* State.                                                                  *)
(***************************************************************************)
VARIABLES
    platform,     \* the target_os of the build
    shareBudget,  \* share sessions this behaviour may create
    listenBudget, \* listen sessions this behaviour may create
    framesLeft,   \* frames the captures may still emit
    chunksLeft,   \* chunks foreign sharers may still write
    pc,           \* per caller: where its command handler is suspended
    arg,          \* per caller: the argument of the command in flight
    ctx,          \* per caller: the session its handler holds in a local
    ret,          \* the last command return: which command, what result
    shareLock,    \* AppState.share mutex: Free or the caller holding it
    share,        \* AppState.share cell: None or the session in it
    nShares,      \* ShareSession values created so far
    router,       \* per share session: the iroh Router
    handle,       \* per share session: the CaptureHandle
    capLoop,      \* per share session: the backend's capture loop / handler
    source,       \* per share session: the captured application
    nFrames,      \* per share session: frames the reblocker has emitted
    pcmQ,         \* per share session: the frame channel's queue
    encTask,      \* per share session: the encode task
    bus,          \* per share session: the frames whose packets the bus took
    shareEnded,   \* per share session: "share-ended" events emitted
    listenLock,   \* AppState.listen mutex
    listen,       \* AppState.listen cell: None or the session in it
    nListens,     \* ListenSession values created so far
    endpoint,     \* per listen session: its iroh Endpoint
    peer,         \* per listen session: the share session at the other end
                  \* of its connection, None for a sharer outside the model
    stopSig,      \* per listen session: the stop oneshot
    playback,     \* per listen session: the PlaybackStream
    wire,         \* per listen session: bytes written and not yet read
    wireSt,       \* per listen session: the state of the stream
    wTask,        \* per listen session: the sharer's writer task for it
    wNext,        \* per listen session: the writer's position on the bus
    wPkt,         \* per listen session: the packet the writer is sending
    wLen,         \* per listen session: the writer's local `len`, a u16
    wOff,         \* per listen session: bytes of wPkt already written
    recvTask,     \* per listen session: the receive task
    rNeed,        \* per listen session: bytes read_exact still waits for
    rBuf,         \* per listen session: bytes read_exact has got so far
    pktQ,         \* per listen session: the packet channel's queue
    decTask,      \* per listen session: the decode task
    listenEnded,  \* per listen session: "listen-ended" events emitted
    io            \* a function of the program called on its own: its
                  \* inputs, how far the call has got, its results

envVars == <<platform, shareBudget, listenBudget, io>>
budgetVars == <<framesLeft, chunksLeft>>
callVars == <<pc, arg, ctx, ret>>
shareCell == <<shareLock, share, nShares>>
capVars == <<handle, capLoop, source, nFrames>>
encVars == <<pcmQ, encTask, bus, shareEnded>>
listenCell == <<listenLock, listen, nListens>>
sessVars == <<endpoint, peer, stopSig, playback>>
wireVars == <<wire, wireSt>>
writerVars == <<wTask, wNext, wPkt, wLen, wOff>>
recvVars == <<recvTask, rNeed, rBuf, pktQ>>
decVars == <<decTask, listenEnded>>
shareSide == <<shareCell, router, capVars, encVars>>
listenSide == <<listenCell, sessVars, wireVars, writerVars, recvVars, decVars>>
vars == <<envVars, budgetVars, callVars, shareSide, listenSide>>

\* no function is called on its own
NoCall == [fn |-> "none"]

NoArg == [kind |-> "none", v |-> 0]
\* AudioSource values: v = 1 when source.id parses as the backend's id
SourceArgs == {[kind |-> "source", v |-> 1], [kind |-> "source", v |-> 0]}
NoRet == [cmd |-> "none", val |-> "none"]
Return(cmd, val) == [cmd |-> cmd, val |-> val]

(***************************************************************************)
(* Derived state of a share session.                                       *)
(***************************************************************************)
\* the encode task owns pcm_rx and a clone of opus_tx while it is alive
EncAlive(s) == encTask[s] \in {"spawned", "running"}
\* the frame channel's Receiver exists
PcmRxAlive(s) == EncAlive(s)
\* some Sender of the frame channel exists: the capture loop (or the output
\* handler) owns them all once start_capture has returned
PcmTxAlive(s) == capLoop[s] = "running"
\* a writer task holds a broadcast Receiver from its subscribe() on
WriterAlive(l) == wTask[l] \in {"accept", "recv", "hdr", "body"}
Subscribers(s) == {l \in Listens : peer[l] = s /\ WriterAlive(l)}
\* some broadcast Sender exists: ShareSession.opus_tx and the handler's
\* clone live with the router, the encode task holds a third
BusTxAlive(s) == router[s] = "live" \/ EncAlive(s)

(***************************************************************************)
(* The environments of Spec: what the UI and the peers may do in one       *)
(* behaviour.                                                              *)
(***************************************************************************)
Scenarios ==
    { \* sharing only: session after session, no audio
      [shares |-> MaxShares, listens |-> 0, frames |-> 0, chunks |-> 0],
      \* sharing only: one session with audio
      [shares |-> MaxShares - 1, listens |-> 0, frames |-> MaxFrames,
       chunks |-> 0],
      \* listening only, to sharers that send nothing
      [shares |-> 0, listens |-> MaxListens, frames |-> 0, chunks |-> 0],
      \* listening only: one session, to a sharer that sends
      [shares |-> 0, listens |-> MaxListens - 1, frames |-> 0,
       chunks |-> MaxChunks],
      \* both roles in one process
      [shares |-> MaxShares - 1, listens |-> MaxListens - 1,
       frames |-> MaxFrames - 1, chunks |-> 0] }

\* AppState::new() and no session yet
InitState ==
    /\ pc = [c \in Callers |-> "idle"]
    /\ arg = [c \in Callers |-> NoArg]
    /\ ctx = [c \in Callers |-> None]
    /\ ret = NoRet
    /\ shareLock = Free
    /\ share = None
    /\ nShares = 0
    /\ router = [s \in Shares |-> "none"]
    /\ handle = [s \in Shares |-> "none"]
    /\ capLoop = [s \in Shares |-> "none"]
    /\ source = [s \in Shares |-> "none"]
    /\ nFrames = [s \in Shares |-> 0]
    /\ pcmQ = [s \in Shares |-> <<>>]
    /\ encTask = [s \in Shares |-> "none"]
    /\ bus = [s \in Shares |-> <<>>]
    /\ shareEnded = [s \in Shares |-> 0]
    /\ listenLock = Free
    /\ listen = None
    /\ nListens = 0
    /\ endpoint = [l \in Listens |-> "none"]
    /\ peer = [l \in Listens |-> None]
    /\ stopSig = [l \in Listens |-> "none"]
    /\ playback = [l \in Listens |-> "none"]
    /\ wire = [l \in Listens |-> Empty]
    /\ wireSt = [l \in Listens |-> "none"]
    /\ wTask = [l \in Listens |-> "none"]
    /\ wNext = [l \in Listens |-> 0]
    /\ wPkt = [l \in Listens |-> Empty]
    /\ wLen = [l \in Listens |-> 0]
    /\ wOff = [l \in Listens |-> 0]
    /\ recvTask = [l \in Listens |-> "none"]
    /\ rNeed = [l \in Listens |-> 0]
    /\ rBuf = [l \in Listens |-> Empty]
    /\ pktQ = [l \in Listens |-> <<>>]
    /\ decTask = [l \in Listens |-> "none"]
    /\ listenEnded = [l \in Listens |-> 0]

Init ==
    /\ \E sc \in Scenarios :
        /\ shareBudget = sc.shares
        /\ listenBudget = sc.listens
        /\ framesLeft = sc.frames
        /\ chunksLeft = sc.chunks
        /\ platform \in (IF sc.listens = 0 THEN Platforms ELSE {"linux"})
    /\ InitState
    /\ io = NoCall

(***************************************************************************)
(* app.rs 54-109: start_sharing.                                           *)
(***************************************************************************)
\* faulty variant of the lock: a guard for whoever asks
AlwaysFree == TRUE

\* state.share.lock().await: the tokio mutex grants the guard when free
ShareLockFree == shareLock = Free

\* faulty variant of the occupancy check: none
NeverOccupied == FALSE

\* one cell for both roles: a session of either kind occupies it
EitherOccupied == share # None \/ listen # None

\* if share_guard.is_some() { return Err("Already sharing") }
ShareOccupied == share # None

\* capture::start_capture(&source): source.id.parse() on Linux and Windows,
\* the application and window lookup on macOS
StartCaptureOutcomes(a) ==
    IF platform = "macos" THEN {"ok", "err"}
    ELSE IF a.v = 0 THEN {"err"} ELSE {"ok"}

\* lines 59-65: the lock, the occupancy check, then ShareSession::start() is
\* awaited (Endpoint bind) with the guard held
StartSharingBegin(c) ==
    /\ pc[c] = "idle"
    /\ shareBudget > 0
    /\ ShareLockFree
    /\ IF ShareOccupied
       THEN /\ ret' = Return("start_sharing", "AlreadyRunning")
            /\ UNCHANGED <<pc, arg, ctx, shareLock>>
       ELSE /\ \E a \in SourceArgs : arg' = [arg EXCEPT ![c] = a]
            /\ pc' = [pc EXCEPT ![c] = "ss_bind"]
            /\ shareLock' = c
            /\ UNCHANGED <<ctx, ret>>
    /\ UNCHANGED <<envVars, budgetVars, share, nShares, router, capVars,
                   encVars, listenSide>>

\* lines 65-108: ShareSession::start returns; ticket encoding, start_capture,
\* the spawn of the encode task and the store into the cell follow.  The
\* guard is held throughout and nobody has the ticket yet, so no other
\* step can tell where start_capture suspends
StartSharingFinish(c) ==
    /\ pc[c] = "ss_bind"
    /\ pc' = [pc EXCEPT ![c] = "idle"]
    /\ arg' = [arg EXCEPT ![c] = NoArg]
    /\ shareLock' = IF shareLock = c THEN Free ELSE shareLock
    /\ \/ \* Endpoint::builder().bind() fails
          /\ ret' = Return("start_sharing", "Transport")
          /\ UNCHANGED <<share, nShares, router, capVars, encTask>>
       \/ \* ShareSession::start succeeded
          /\ nShares < shareBudget
          /\ LET s == nShares + 1 IN
             /\ nShares' = s
             /\ \/ \* to_string_encoded or start_capture fails: the session
                   \* is dropped on the early return
                   /\ \E why \in {"Json"} \cup
                          (IF "err" \in StartCaptureOutcomes(arg[c])
                           THEN {"Backend"} ELSE {}) :
                          ret' = Return("start_sharing", why)
                   /\ router' = [router EXCEPT ![s] = "dropped"]
                   /\ UNCHANGED <<share, capVars, encTask>>
                \/ /\ "ok" \in StartCaptureOutcomes(arg[c])
                   /\ ret' = Return("start_sharing", "Ok")
                   /\ router' = [router EXCEPT ![s] = "live"]
                   /\ handle' = [handle EXCEPT ![s] = "held"]
                   /\ capLoop' = [capLoop EXCEPT ![s] = "running"]
                   /\ source' = [source EXCEPT ![s] = "alive"]
                   /\ encTask' = [encTask EXCEPT ![s] = "spawned"]
                   /\ share' = s
                   /\ UNCHANGED nFrames
    /\ UNCHANGED <<envVars, budgetVars, ctx, pcmQ, bus, shareEnded,
                   listenSide>>

(***************************************************************************)
(* transport.rs 83-87 and the drop of a ShareSession: the router goes, and *)
(* with it the accept loop, its writer tasks and the connections.          *)
(***************************************************************************)
WritersGone(s) ==
    /\ wTask' = [l \in Listens |->
                    IF peer[l] = s /\ wTask[l] \in {"spawned", "accept",
                                                     "recv", "hdr", "body"}
                    THEN "aborted" ELSE wTask[l]]
    /\ wireSt' = [l \in Listens |->
                    IF peer[l] = s /\ wireSt[l] \in {"open", "fin"}
                    THEN "closed" ELSE wireSt[l]]

(***************************************************************************)
(* app.rs 113-121: stop_sharing.                                           *)
(***************************************************************************)
\* faulty variant of stopping with nothing in the cell: an error
StopOnEmptyErr(cmd) == ret' = Return(cmd, "NotRunning")

\* lines 115, 120 and 189, 194: with nothing in the cell the `if let` block
\* is skipped and the command returns Ok(())
StopOnEmpty(cmd) == ret' = Return(cmd, "Ok")

\* lines 114-117: the lock, share_guard.take(), encode_task.abort(), then
\* router.shutdown() is awaited
StopSharingBegin(c) ==
    /\ pc[c] = "idle"
    /\ shareBudget > 0
    /\ ShareLockFree
    /\ IF share = None
       THEN /\ StopOnEmpty("stop_sharing")
            /\ UNCHANGED <<pc, ctx, shareLock, share, encTask, pcmQ>>
       ELSE /\ pc' = [pc EXCEPT ![c] = "sp_shutdown"]
            /\ ctx' = [ctx EXCEPT ![c] = share]
            /\ shareLock' = c
            /\ share' = None
            /\ encTask' = [encTask EXCEPT ![share] =
                              IF EncAlive(share) THEN "aborted" ELSE @]
            /\ pcmQ' = [pcmQ EXCEPT ![share] = <<>>]
            /\ UNCHANGED ret
    /\ UNCHANGED <<envVars, budgetVars, arg, nShares, router, capVars, bus,
                   shareEnded, listenSide>>

\* a stop that puts the session back into the cell when the shutdown fails
KeptOnErr(r, s) == IF r = "Transport" THEN s ELSE None

\* lines 115-120: share_guard.take() has left None in the cell, and neither
\* the `?` of line 117 nor the end of the block puts anything back
CellAfterStop(r, s) == None

\* lines 117-120: router.shutdown() returns Ok or Err; what is left of ctx
\* (the capture handle) is dropped at the end of the block or on the `?`
StopSharingFinish(c) ==
    /\ pc[c] = "sp_shutdown"
    /\ LET s == ctx[c] IN
       /\ router' = [router EXCEPT ![s] = "shutdown"]
       /\ handle' = [handle EXCEPT ![s] = "dropped"]
       /\ WritersGone(s)
       /\ \E r \in {"Ok", "Transport"} :
            /\ ret' = Return("stop_sharing", r)
            /\ share' = CellAfterStop(r, s)
    /\ pc' = [pc EXCEPT ![c] = "idle"]
    /\ ctx' = [ctx EXCEPT ![c] = None]
    /\ shareLock' = IF shareLock = c THEN Free ELSE shareLock
    /\ UNCHANGED <<envVars, budgetVars, arg, nShares, capLoop, source,
                   nFrames, encVars, listenCell, sessVars, wire, wNext, wPkt,
                   wLen, wOff, recvVars, decVars>>

(***************************************************************************)
(* capture/{linux,macos,windows}.rs: the backend as the frame channel sees *)
(* it.  A frame is named by its number.                                    *)
(***************************************************************************)
\* tx.try_send(frame) on Linux and macOS (linux.rs:155, macos.rs:107);
\* tx.blocking_send(frame) on Windows (windows.rs:190)
SendBlocks == platform = "windows"

\* one complete frame leaves the reblocker
CaptureFrame(s) ==
    /\ capLoop[s] = "running"
    /\ source[s] = "alive"
    /\ framesLeft > 0
    /\ framesLeft' = framesLeft - 1
    /\ nFrames' = [nFrames EXCEPT ![s] = @ + 1]
    /\ LET f == nFrames[s] + 1 IN
       IF ~PcmRxAlive(s)
       THEN \* the send fails: Windows returns from capture_loop, the
            \* others ignore the error
            /\ capLoop' = [capLoop EXCEPT ![s] =
                              IF SendBlocks THEN "exited" ELSE @]
            /\ UNCHANGED pcmQ
       ELSE /\ SendBlocks => Len(pcmQ[s]) < FrameChanCap
            /\ pcmQ' = [pcmQ EXCEPT ![s] =
                           IF Len(@) < FrameChanCap THEN Append(@, f) ELSE @]
            /\ UNCHANGED capLoop
    /\ UNCHANGED <<envVars, chunksLeft, callVars, shareCell, router, handle,
                   source, encTask, bus, shareEnded, listenSide>>

\* the captured application exits: nothing in the backends reacts to it
SourceVanish(s) ==
    /\ capLoop[s] = "running"
    /\ source[s] = "alive"
    /\ source' = [source EXCEPT ![s] = "vanished"]
    /\ UNCHANGED <<envVars, budgetVars, callVars, shareCell, router, handle,
                   capLoop, nFrames, encVars, listenSide>>

\* when the capture loop returns and drops every Sender of the frame channel:
\*  linux   (linux.rs:175-183) the helper thread polls stop_rx once and quits
\*          the main loop whatever it read;
\*  macos   (macos.rs:79-117) the stream that owns the output handler is a
\*          local of start_capture, and _stop_rx is dropped there: how long
\*          the framework keeps the handler is not decided by this code;
\*  windows (windows.rs:121-158, 166-170) a failing setup call before the
\*          loop; in the loop try_recv().is_ok() needs a value on the stop
\*          channel and nothing ever sends one.
CaptureMayExit(s) ==
    CASE platform = "linux" -> TRUE
      [] platform = "macos" -> TRUE
      [] platform = "windows" -> nFrames[s] = 0

CaptureLoopExit(s) ==
    /\ capLoop[s] = "running"
    /\ CaptureMayExit(s)
    /\ capLoop' = [capLoop EXCEPT ![s] = "exited"]
    /\ UNCHANGED <<envVars, budgetVars, callVars, shareCell, router, handle,
                   source, nFrames, encVars, listenSide>>

(***************************************************************************)
(* app.rs 78-100: the encode task.                                         *)
(***************************************************************************)
\* codec::Encoder::new() returns Ok or Err
EncoderNewOutcomes == {"ok", "err"}

\* lines 79-85: the first poll constructs the encoder; on Err the task logs
\* and returns
EncodeStart(s) ==
    /\ encTask[s] = "spawned"
    /\ \E o \in EncoderNewOutcomes :
        /\ encTask' = [encTask EXCEPT ![s] =
                          IF o = "ok" THEN "running" ELSE "failed"]
        /\ pcmQ' = [pcmQ EXCEPT ![s] = IF o = "ok" THEN @ ELSE <<>>]
    /\ UNCHANGED <<envVars, budgetVars, callVars, shareCell, router, capVars,
                   bus, shareEnded, listenSide>>

\* a bus that makes the sender wait while a subscriber has BusCapacity
\* packets to read
BusWaitsForSlowest(s) ==
    \A l \in Subscribers(s) : Len(bus[s]) - wNext[l] < BusCapacity

\* lines 92-94: broadcast::Sender::send returns at once whatever the
\* receivers have read: at capacity the oldest packet is overwritten
BusAccepts(s) == TRUE

\* lines 87-96: one frame is received and encoded; opus_tx.send() stores the
\* packet when the bus has a subscriber and returns Err, ignored, when not
EncodeFrame(s) ==
    /\ encTask[s] = "running"
    /\ pcmQ[s] # <<>>
    /\ BusAccepts(s)
    /\ pcmQ' = [pcmQ EXCEPT ![s] = Tail(@)]
    /\ LET f == Head(pcmQ[s]) IN
       bus' = [bus EXCEPT ![s] =
                  IF Encode(f).ok /\ Subscribers(s) # {}
                  THEN Append(@, f) ELSE @]
    /\ UNCHANGED <<envVars, budgetVars, callVars, shareCell, router, capVars,
                   encTask, shareEnded, listenSide>>

\* lines 87, 98-99: recv() returns None once the queue is empty and every
\* Sender is gone; the task emits "share-ended" and returns
EncodeEof(s) ==
    /\ encTask[s] = "running"
    /\ pcmQ[s] = <<>>
    /\ ~PcmTxAlive(s)
    /\ encTask' = [encTask EXCEPT ![s] = "done"]
    /\ shareEnded' = [shareEnded EXCEPT ![s] = @ + 1]
    /\ UNCHANGED <<envVars, budgetVars, callVars, shareCell, router, capVars,
                   pcmQ, bus, listenSide>>

NextShare ==
    \/ \E c \in Callers : StartSharingBegin(c)
    \/ \E c \in Callers : StartSharingFinish(c)
    \/ \E c \in Callers : StopSharingBegin(c)
    \/ \E c \in Callers : StopSharingFinish(c)
    \/ \E s \in Shares : CaptureFrame(s)
    \/ \E s \in Shares : SourceVanish(s)
    \/ \E s \in Shares : CaptureLoopExit(s)
    \/ \E s \in Shares : EncodeStart(s)
    \/ \E s \in Shares : EncodeFrame(s)
    \/ \E s \in Shares : EncodeEof(s)

(***************************************************************************)
(* Derived state of a listen session.                                      *)
(***************************************************************************)
\* the decode task owns opus_rx, the packet channel's Receiver
DecAlive(l) == decTask[l] \in {"spawned", "running"}
PktRxAlive(l) == DecAlive(l)
\* the receive task owns the packet channel's only Sender
RecvAlive(l) == recvTask[l] \in {"hdr", "body"}
PktTxAlive(l) == RecvAlive(l)

(***************************************************************************)
(* transport.rs 28-44: the ticket codec.  A text is a sequence of ASCII    *)
(* codes, a payload a sequence of bytes.  A Ticket holds an address; the   *)
(* model's addresses are short sequences of decimal digits, serialized as  *)
(* the digits between braces.                                              *)
(***************************************************************************)
\* BASE64URL_NOPAD: the symbol of a 6-bit value, A-Z a-z 0-9 - _
B64Char(v) ==
    IF v < 26 THEN 65 + v
    ELSE IF v < 52 THEN 97 + (v - 26)
    ELSE IF v < 62 THEN 48 + (v - 52)
    ELSE IF v = 62 THEN 45
    ELSE 95

\* the 6-bit value of a symbol, -1 for a character outside the alphabet
B64Val(c) ==
    IF c \in 65..90 THEN c - 65
    ELSE IF c \in 97..122 THEN c - 97 + 26
    ELSE IF c \in 48..57 THEN c - 48 + 52
    ELSE IF c = 45 THEN 62
    ELSE IF c = 95 THEN 63
    ELSE -1

\* BASE64URL_NOPAD.encode: three bytes give four symbols; one or two bytes
\* left over give two or three symbols, and no '=' is appended
RECURSIVE B64Encode(_)
B64Encode(bs) ==
    IF Len(bs) = 0 THEN <<>>
    ELSE IF Len(bs) = 1
    THEN <<B64Char(bs[1] \div 4), B64Char((bs[1] % 4) * 16)>>
    ELSE IF Len(bs) = 2
    THEN <<B64Char(bs[1] \div 4),
           B64Char((bs[1] % 4) * 16 + bs[2] \div 16),
           B64Char((bs[2] % 16) * 4)>>
    ELSE <<B64Char(bs[1] \div 4),
           B64Char((bs[1] % 4) * 16 + bs[2] \div 16),
           B64Char((bs[2] % 16) * 4 + bs[3] \div 64),
           B64Char(bs[3] % 64)>> \o B64Encode(SubSeq(bs, 4, Len(bs)))

\* the bytes of symbols known to be in the alphabet and of a valid length
RECURSIVE B64Bytes(_)
B64Bytes(cs) ==
    IF Len(cs) < 2 THEN <<>>
    ELSE LET a == B64Val(cs[1])
             b == B64Val(cs[2])
         IN  IF Len(cs) = 2 THEN <<a * 4 + b \div 16>>
             ELSE LET c == B64Val(cs[3]) IN
                  IF Len(cs) = 3
                  THEN <<a * 4 + b \div 16, (b % 16) * 16 + c \div 4>>
                  ELSE <<a * 4 + b \div 16, (b % 16) * 16 + c \div 4,
                         (c % 4) * 64 + B64Val(cs[4])>>
                       \o B64Bytes(SubSeq(cs, 5, Len(cs)))

\* BASE64URL_NOPAD.decode: an error for a character outside the alphabet,
\* for a length no encoding has, and for non-zero bits after the last byte
B64Decode(cs) ==
    LET n == Len(cs) IN
    IF \E i \in 1..n : B64Val(cs[i]) = -1 THEN [ok |-> FALSE, bytes |-> <<>>]
    ELSE IF n % 4 = 1 THEN [ok |-> FALSE, bytes |-> <<>>]
    ELSE IF n % 4 = 2 /\ B64Val(cs[n]) % 16 # 0
    THEN [ok |-> FALSE, bytes |-> <<>>]
    ELSE IF n % 4 = 3 /\ B64Val(cs[n]) % 4 # 0
    THEN [ok |-> FALSE, bytes |-> <<>>]
    ELSE [ok |-> TRUE, bytes |-> B64Bytes(cs)]

\* str::trim(): the characters with the White_Space property, of which the
\* ASCII ones are tab, LF, VT, FF, CR and space
IsSpace(c) == c \in {9, 10, 11, 12, 13, 32}

\* a decoder that takes the text as it is
NoTrim(s) == s

RECURSIVE TrimStart(_)
TrimStart(s) ==
    IF s # <<>> /\ IsSpace(Head(s)) THEN TrimStart(Tail(s)) ELSE s

RECURSIVE TrimEnd(_)
TrimEnd(s) ==
    IF s # <<>> /\ IsSpace(s[Len(s)])
    THEN TrimEnd(SubSeq(s, 1, Len(s) - 1)) ELSE s

Trim(s) == TrimEnd(TrimStart(s))

\* serde_json::to_vec(&Ticket): '{', the address, '}'
ToJson(t) == <<123>> \o [i \in 1..Len(t) |-> 48 + t[i]] \o <<125>>

\* serde_json::from_slice: an error unless the bytes are a serialized Ticket
FromJson(bs) ==
    LET n == Len(bs) IN
    IF /\ n >= 3
       /\ bs[1] = 123
       /\ bs[n] = 125
       /\ \A i \in 2..(n - 1) : bs[i] \in 48..57
    THEN [ok |-> TRUE, ticket |-> [i \in 1..(n - 2) |-> bs[i + 1] - 48]]
    ELSE [ok |-> FALSE, ticket |-> <<>>]

\* lines 34-37: Ticket::to_string_encoded
ToStringEncoded(t) == B64Encode(ToJson(t))

\* a decoder that takes every text for the ticket of a foreign sharer
AcceptAnyText(s) == [ok |-> TRUE, ticket |-> <<0>>]

\* lines 40-43: Ticket::from_string_encoded
FromStringEncoded(s) ==
    LET json == B64Decode(Trim(s)) IN
    IF ~json.ok THEN [ok |-> FALSE, ticket |-> <<>>]
    ELSE FromJson(json.bytes)

\* the address of a share session of this model, 0 for a sharer outside it
AddrOf(v) == <<v>>

\* tests, line 247: "not!valid!base64!!!"
BadBase64Text ==
    <<110, 111, 116, 33, 118, 97, 108, 105, 100, 33, 98, 97, 115, 101, 54,
      52, 33, 33, 33>>

\* tests, line 254: BASE64URL_NOPAD.encode(b"not json")
BadJsonText == B64Encode(<<110, 111, 116, 32, 106, 115, 111, 110>>)

\* ticket strings: two that do not decode, and the tickets of the sharers
\* that exist (address 0: a sharer that is not this process)
TicketArgs ==
    {ToStringEncoded(AddrOf(v)) : v \in 0..MaxShares}
        \cup {BadBase64Text, BadJsonText}

(***************************************************************************)
(* app.rs 125-183: start_listening.                                        *)
(***************************************************************************)
ListenLockFree == listenLock = Free

\* if listen_guard.is_some() { return Err("Already listening") }
ListenOccupied == listen # None

\* lines 130-140 with ticket_str = text: the lock, the occupancy check, the
\* ticket decoding, then ListenSession::connect() is awaited with the guard
\* held
StartListeningWith(c, text) ==
    /\ pc[c] = "idle"
    /\ listenBudget > 0
    /\ ListenLockFree
    /\ IF ListenOccupied
       THEN /\ ret' = Return("start_listening", "AlreadyRunning")
            /\ UNCHANGED <<pc, arg, ctx, listenLock>>
       ELSE LET t == FromStringEncoded(text) IN
            IF ~t.ok
            THEN /\ ret' = Return("start_listening", "BadTicket")
                 /\ UNCHANGED <<pc, arg, ctx, listenLock>>
            ELSE /\ t.ticket[1] <= nShares
                 /\ arg' = [arg EXCEPT ![c] =
                               [kind |-> "ticket", v |-> t.ticket[1]]]
                 /\ pc' = [pc EXCEPT ![c] = "sl_connect"]
                 /\ listenLock' = c
                 /\ UNCHANGED <<ctx, ret>>
    /\ UNCHANGED <<envVars, budgetVars, shareSide, listen, nListens, sessVars,
                   wireVars, writerVars, recvVars, decVars>>

StartListeningBegin(c) == \E text \in TicketArgs : StartListeningWith(c, text)

\* transport.rs 141-187 and app.rs 138-182: connect() returns; on success
\* the receive task is running and the sharer's router has spawned accept()
\* for the connection; PlaybackStream::start, the spawn of the decode task
\* and the store into the cell follow without an await
StartListeningFinish(c) ==
    /\ pc[c] = "sl_connect"
    /\ pc' = [pc EXCEPT ![c] = "idle"]
    /\ arg' = [arg EXCEPT ![c] = NoArg]
    /\ listenLock' = IF listenLock = c THEN Free ELSE listenLock
    /\ \/ \* bind, connect or open_bi fails
          /\ ret' = Return("start_listening", "Transport")
          /\ UNCHANGED <<listen, nListens, sessVars, wireVars, wTask,
                         recvTask, rNeed, decTask>>
       \/ /\ nListens < listenBudget
          /\ arg[c].v # None => router[arg[c].v] = "live"
          /\ LET l == nListens + 1 IN
             /\ nListens' = l
             /\ peer' = [peer EXCEPT ![l] = arg[c].v]
             /\ wire' = [wire EXCEPT ![l] = Empty]
             /\ wireSt' = [wireSt EXCEPT ![l] = "open"]
             /\ recvTask' = [recvTask EXCEPT ![l] = "hdr"]
             /\ rNeed' = [rNeed EXCEPT ![l] = 2]
             /\ wTask' = [wTask EXCEPT ![l] =
                             IF arg[c].v # None THEN "spawned" ELSE "none"]
             /\ \/ \* PlaybackStream::start fails: session and opus_rx are
                   \* dropped on the early return
                   /\ ret' = Return("start_listening", "NoDevice")
                   /\ endpoint' = [endpoint EXCEPT ![l] = "dropped"]
                   /\ stopSig' = [stopSig EXCEPT ![l] = "dropped"]
                   /\ UNCHANGED <<listen, playback, decTask>>
                \/ /\ ret' = Return("start_listening", "Ok")
                   /\ endpoint' = [endpoint EXCEPT ![l] = "open"]
                   /\ stopSig' = [stopSig EXCEPT ![l] = "pending"]
                   /\ playback' = [playback EXCEPT ![l] = "running"]
                   /\ decTask' = [decTask EXCEPT ![l] = "spawned"]
                   /\ listen' = l
    /\ UNCHANGED <<envVars, budgetVars, ctx, shareSide, wNext, wPkt, wLen,
                   wOff, rBuf, pktQ, listenEnded>>

(***************************************************************************)
(* app.rs 187-195: stop_listening.                                         *)
(***************************************************************************)
\* lines 188-191 and transport.rs 190-192: the lock, listen_guard.take(),
\* decode_task.abort(), stop_tx.send(()), then endpoint.close() is awaited
StopListeningBegin(c) ==
    /\ pc[c] = "idle"
    /\ listenBudget > 0
    /\ ListenLockFree
    /\ IF listen = None
       THEN /\ StopOnEmpty("stop_listening")
            /\ UNCHANGED <<pc, ctx, listenLock, listen, decTask, pktQ,
                           stopSig>>
       ELSE /\ pc' = [pc EXCEPT ![c] = "sl_close"]
            /\ ctx' = [ctx EXCEPT ![c] = listen]
            /\ listenLock' = c
            /\ listen' = None
            /\ decTask' = [decTask EXCEPT ![listen] =
                              IF DecAlive(listen) THEN "aborted" ELSE @]
            /\ pktQ' = [pktQ EXCEPT ![listen] = <<>>]
            /\ stopSig' = [stopSig EXCEPT ![listen] = "sent"]
            /\ UNCHANGED ret
    /\ UNCHANGED <<envVars, budgetVars, arg, shareSide, nListens, endpoint,
                   peer, playback, wireVars, writerVars, recvTask, rNeed,
                   rBuf, listenEnded>>

\* transport.rs 192 and app.rs 192-194: endpoint.close() returns: the
\* connection is closed; ctx (the playback stream) is dropped; Ok(())
StopListeningFinish(c) ==
    /\ pc[c] = "sl_close"
    /\ LET l == ctx[c] IN
       /\ endpoint' = [endpoint EXCEPT ![l] = "closed"]
       /\ wireSt' = [wireSt EXCEPT ![l] = "closed"]
       /\ playback' = [playback EXCEPT ![l] = "dropped"]
    /\ ret' = Return("stop_listening", "Ok")
    /\ pc' = [pc EXCEPT ![c] = "idle"]
    /\ ctx' = [ctx EXCEPT ![c] = None]
    /\ listenLock' = IF listenLock = c THEN Free ELSE listenLock
    /\ UNCHANGED <<envVars, budgetVars, arg, shareSide, listen, nListens,
                   peer, stopSig, wire, writerVars, recvVars, decVars>>

NextListen ==
    \/ \E c \in Callers : StartListeningBegin(c)
    \/ \E c \in Callers : StartListeningFinish(c)
    \/ \E c \in Callers : StopListeningBegin(c)
    \/ \E c \in Callers : StopListeningFinish(c)

(***************************************************************************)
(* transport.rs 96-127: AudioShareHandler::accept, one task per connection *)
(* of a listener to a sharer of this model.                                *)
(***************************************************************************)
\* the oldest position the bus still holds
OldestRetained(s) == Max(0, Len(bus[s]) - BusCapacity)

\* line 97: self.opus_tx.subscribe(): the receiver starts at the tail
WriterSubscribe(l) ==
    /\ wTask[l] = "spawned"
    /\ wTask' = [wTask EXCEPT ![l] = "accept"]
    /\ wNext' = [wNext EXCEPT ![l] = Len(bus[peer[l]])]
    /\ UNCHANGED <<envVars, budgetVars, callVars, shareSide, listenCell,
                   sessVars, wireVars, wPkt, wLen, wOff, recvVars, decVars>>

\* line 102: connection.accept_bi().await?: the transport hands over the
\* listener's stream, or reports the connection gone
WriterAccept(l) ==
    /\ wTask[l] = "accept"
    /\ wTask' = [wTask EXCEPT ![l] =
                    IF wireSt[l] = "open" THEN "recv" ELSE "done"]
    /\ UNCHANGED <<envVars, budgetVars, callVars, shareSide, listenCell,
                   sessVars, wireVars, wNext, wPkt, wLen, wOff, recvVars,
                   decVars>>

\* lines 106-108, 117-121: opus_rx.recv().await returns the packet at the
\* receiver's position, Lagged when the bus has overwritten that position
\* (the receiver moves to the oldest retained one), or Closed when it has
\* caught up and no Sender is left (send is dropped: the stream finishes)
WriterRecv(l) ==
    /\ wTask[l] = "recv"
    /\ LET s == peer[l] IN
       IF wNext[l] < OldestRetained(s)
       THEN /\ wNext' = [wNext EXCEPT ![l] = OldestRetained(s)]
            /\ UNCHANGED <<wTask, wPkt, wLen, wOff, wireSt>>
       ELSE IF wNext[l] < Len(bus[s])
       THEN LET packet == Encode(bus[s][wNext[l] + 1]).packet IN
            /\ wNext' = [wNext EXCEPT ![l] = @ + 1]
            /\ wPkt' = [wPkt EXCEPT ![l] = packet]
            /\ wLen' = [wLen EXCEPT ![l] = AsU16(BLen(packet))]
            /\ wOff' = [wOff EXCEPT ![l] = 0]
            /\ wTask' = [wTask EXCEPT ![l] = "hdr"]
            /\ UNCHANGED wireSt
       ELSE /\ ~BusTxAlive(s)
            /\ wTask' = [wTask EXCEPT ![l] = "done"]
            /\ wireSt' = [wireSt EXCEPT ![l] =
                             IF @ = "open" THEN "fin" ELSE @]
            /\ UNCHANGED <<wNext, wPkt, wLen, wOff>>
    /\ UNCHANGED <<envVars, budgetVars, callVars, shareSide, listenCell,
                   sessVars, wire, recvVars, decVars>>

\* room the stream's flow control leaves
WireRoom(l) == WireWindow - BLen(wire[l])

\* line 110: send.write_all(&len.to_le_bytes()).await
WriterHdr(l) ==
    /\ wTask[l] = "hdr"
    /\ IF wireSt[l] # "open"
       THEN /\ wTask' = [wTask EXCEPT ![l] = "done"]
            /\ UNCHANGED wire
       ELSE /\ WireRoom(l) >= 2
            /\ wire' = [wire EXCEPT ![l] = BCat(@, ToLeBytes(wLen[l]))]
            /\ wTask' = [wTask EXCEPT ![l] = "body"]
    /\ UNCHANGED <<envVars, budgetVars, callVars, shareSide, listenCell,
                   sessVars, wireSt, wNext, wPkt, wLen, wOff, recvVars,
                   decVars>>

\* line 113: send.write_all(&packet).await: as many bytes as the stream
\* takes at a time, until all are written or the stream fails
WriterBody(l) ==
    /\ wTask[l] = "body"
    /\ IF wireSt[l] # "open"
       THEN /\ wTask' = [wTask EXCEPT ![l] = "done"]
            /\ UNCHANGED <<wire, wOff>>
       ELSE LET k == Min(WireRoom(l), BLen(wPkt[l]) - wOff[l]) IN
            /\ k > 0
            /\ wire' = [wire EXCEPT ![l] =
                           BCat(@, BTake(BDrop(wPkt[l], wOff[l]), k))]
            /\ wOff' = [wOff EXCEPT ![l] = @ + k]
            /\ wTask' = [wTask EXCEPT ![l] =
                            IF wOff[l] + k = BLen(wPkt[l]) THEN "recv"
                            ELSE "body"]
    /\ UNCHANGED <<envVars, budgetVars, callVars, shareSide, listenCell,
                   sessVars, wireSt, wNext, wPkt, wLen, recvVars, decVars>>

(***************************************************************************)
(* transport.rs 159-184: the receive task.                                 *)
(***************************************************************************)
\* the loop is left: send, recv and opus_tx are dropped, and with them the
\* task's hold on the stream
RecvEnd(l) ==
    /\ recvTask' = [recvTask EXCEPT ![l] = "ended"]
    /\ rNeed' = [rNeed EXCEPT ![l] = 0]
    /\ rBuf' = [rBuf EXCEPT ![l] = Empty]
    /\ wireSt' = [wireSt EXCEPT ![l] = IF @ \in {"open", "fin"}
                                        THEN "closed" ELSE @]
    /\ UNCHANGED pktQ

\* a packet channel that hands over the newest packet first
DeliverFirst(l, packet) ==
    IF ~PktRxAlive(l)
    THEN RecvEnd(l)
    ELSE /\ pktQ' = [pktQ EXCEPT ![l] = <<packet>> \o @]
         /\ recvTask' = [recvTask EXCEPT ![l] = "hdr"]
         /\ rNeed' = [rNeed EXCEPT ![l] = 2]
         /\ rBuf' = [rBuf EXCEPT ![l] = Empty]
         /\ UNCHANGED wireSt

\* line 173: opus_tx.send(packet).await, then the next turn of the loop
Deliver(l, packet) ==
    IF ~PktRxAlive(l)
    THEN RecvEnd(l)
    ELSE /\ pktQ' = [pktQ EXCEPT ![l] = Append(@, packet)]
         /\ recvTask' = [recvTask EXCEPT ![l] = "hdr"]
         /\ rNeed' = [rNeed EXCEPT ![l] = 2]
         /\ rBuf' = [rBuf EXCEPT ![l] = Empty]
         /\ UNCHANGED wireSt

\* the send suspends while the packet channel is full and has a Receiver
CanDeliver(l) == ~PktRxAlive(l) \/ Len(pktQ[l]) < PacketChanCap

\* line 164: the stop arm of the select, taken only while the task waits
\* for a header; a dropped Sender completes stop_rx as a sent value does
RecvStop(l) ==
    /\ recvTask[l] = "hdr"
    /\ stopSig[l] \in {"sent", "dropped"}
    /\ RecvEnd(l)
    /\ UNCHANGED <<envVars, budgetVars, callVars, shareSide, listenCell,
                   sessVars, wire, writerVars, decVars>>

\* lines 165-170: recv.read_exact(&mut len_buf) takes bytes off the stream;
\* with both it decodes len and allocates vec![0u8; len]; read_exact into
\* an empty buffer is complete at once, so len = 0 goes on to the send
RecvHeader(l) ==
    /\ recvTask[l] = "hdr"
    /\ wire[l] # Empty
    /\ LET k == Min(BLen(wire[l]), rNeed[l])
           got == BCat(rBuf[l], BTake(wire[l], k))
       IN  IF k < rNeed[l]
           THEN /\ wire' = [wire EXCEPT ![l] = BDrop(@, k)]
                /\ rBuf' = [rBuf EXCEPT ![l] = got]
                /\ rNeed' = [rNeed EXCEPT ![l] = @ - k]
                /\ UNCHANGED <<recvTask, pktQ, wireSt>>
           ELSE IF FromLeBytes(got) = 0
           THEN /\ CanDeliver(l)
                /\ Deliver(l, Empty)
                /\ wire' = [wire EXCEPT ![l] = BDrop(@, k)]
           ELSE /\ wire' = [wire EXCEPT ![l] = BDrop(@, k)]
                /\ recvTask' = [recvTask EXCEPT ![l] = "body"]
                /\ rNeed' = [rNeed EXCEPT ![l] = FromLeBytes(got)]
                /\ rBuf' = [rBuf EXCEPT ![l] = Empty]
                /\ UNCHANGED <<pktQ, wireSt>>
    /\ UNCHANGED <<envVars, budgetVars, callVars, shareSide, listenCell,
                   sessVars, writerVars, decVars>>

\* lines 171-173: recv.read_exact(&mut packet) takes bytes off the stream;
\* with all len of them the packet is sent to the packet channel
RecvBody(l) ==
    /\ recvTask[l] = "body"
    /\ wire[l] # Empty
    /\ LET k == Min(BLen(wire[l]), rNeed[l])
           got == BCat(rBuf[l], BTake(wire[l], k))
       IN  IF k < rNeed[l]
           THEN /\ wire' = [wire EXCEPT ![l] = BDrop(@, k)]
                /\ rBuf' = [rBuf EXCEPT ![l] = got]
                /\ rNeed' = [rNeed EXCEPT ![l] = @ - k]
                /\ UNCHANGED <<recvTask, pktQ, wireSt>>
           ELSE /\ CanDeliver(l)
                /\ Deliver(l, got)
                /\ wire' = [wire EXCEPT ![l] = BDrop(@, k)]
    /\ UNCHANGED <<envVars, budgetVars, callVars, shareSide, listenCell,
                   sessVars, writerVars, decVars>>

\* lines 166-168, 176: read_exact fails: the stream finished before the
\* buffer was full, or the connection is gone
RecvReadError(l) ==
    /\ RecvAlive(l)
    /\ \/ wireSt[l] = "closed"
       \/ wireSt[l] = "fin" /\ wire[l] = Empty
    /\ RecvEnd(l)
    /\ UNCHANGED <<envVars, budgetVars, callVars, shareSide, listenCell,
                   sessVars, wire, writerVars, decVars>>

(***************************************************************************)
(* app.rs 148-174: the decode task.                                        *)
(***************************************************************************)
\* codec::Decoder::new() returns Ok or Err
DecoderNewOutcomes == {"ok", "err"}

\* lines 149-155: the first poll constructs the decoder; on Err the task
\* logs and returns
DecodeStart(l) ==
    /\ decTask[l] = "spawned"
    /\ \E o \in DecoderNewOutcomes :
        /\ decTask' = [decTask EXCEPT ![l] =
                          IF o = "ok" THEN "running" ELSE "failed"]
        /\ pktQ' = [pktQ EXCEPT ![l] = IF o = "ok" THEN @ ELSE <<>>]
    /\ UNCHANGED <<envVars, budgetVars, callVars, shareSide, listenCell,
                   sessVars, wireVars, writerVars, recvTask, rNeed, rBuf,
                   listenEnded>>

\* lines 157-170: one packet is received and decoded (or the decode error
\* is logged); the samples go to the ring buffer
DecodePacket(l) ==
    /\ decTask[l] = "running"
    /\ pktQ[l] # <<>>
    /\ pktQ' = [pktQ EXCEPT ![l] = Tail(@)]
    /\ UNCHANGED <<envVars, budgetVars, callVars, shareSide, listenCell,
                   sessVars, wireVars, writerVars, recvTask, rNeed, rBuf,
                   decVars>>

\* lines 157, 172-173: recv() returns None once the queue is empty and the
\* Sender is gone; the task emits "listen-ended" and returns
DecodeEof(l) ==
    /\ decTask[l] = "running"
    /\ pktQ[l] = <<>>
    /\ ~PktTxAlive(l)
    /\ decTask' = [decTask EXCEPT ![l] = "done"]
    /\ listenEnded' = [listenEnded EXCEPT ![l] = @ + 1]
    /\ UNCHANGED <<envVars, budgetVars, callVars, shareSide, listenCell,
                   sessVars, wireVars, writerVars, recvVars>>

(***************************************************************************)
(* The far end of a connection to a sharer that is not this process: any   *)
(* peer that speaks the ALPN.                                              *)
(***************************************************************************)
\* what such a peer writes at a time: the header of an empty packet, the
\* header of a one-byte packet, one byte
PeerChunks == {ToLeBytes(0), ToLeBytes(1), Rep(9, 1)}

PeerWrite(l) ==
    /\ recvTask[l] # "none"
    /\ peer[l] = None
    /\ wireSt[l] = "open"
    /\ chunksLeft > 0
    /\ chunksLeft' = chunksLeft - 1
    /\ \E chunk \in PeerChunks : wire' = [wire EXCEPT ![l] = BCat(@, chunk)]
    /\ UNCHANGED <<envVars, framesLeft, callVars, shareSide, listenCell,
                   sessVars, wireSt, writerVars, recvVars, decVars>>

\* the peer finishes its stream, or its connection goes
PeerClose(l) ==
    /\ recvTask[l] # "none"
    /\ peer[l] = None
    /\ wireSt[l] = "open"
    /\ \E st \in {"fin", "closed"} : wireSt' = [wireSt EXCEPT ![l] = st]
    /\ UNCHANGED <<envVars, budgetVars, callVars, shareSide, listenCell,
                   sessVars, wire, writerVars, recvVars, decVars>>

\* the network loses the connection between a sharer and a listener
ConnLost(l) ==
    /\ wireSt[l] = "open"
    /\ wireSt' = [wireSt EXCEPT ![l] = "closed"]
    /\ UNCHANGED <<envVars, budgetVars, callVars, shareSide, listenCell,
                   sessVars, wire, writerVars, recvVars, decVars>>

NextPipe ==
    \/ \E l \in Listens : WriterSubscribe(l)
    \/ \E l \in Listens : WriterAccept(l)
    \/ \E l \in Listens : WriterRecv(l)
    \/ \E l \in Listens : WriterHdr(l)
    \/ \E l \in Listens : WriterBody(l)
    \/ \E l \in Listens : RecvStop(l)
    \/ \E l \in Listens : RecvHeader(l)
    \/ \E l \in Listens : RecvBody(l)
    \/ \E l \in Listens : RecvReadError(l)
    \/ \E l \in Listens : DecodeStart(l)
    \/ \E l \in Listens : DecodePacket(l)
    \/ \E l \in Listens : DecodeEof(l)
    \/ \E l \in Listens : PeerWrite(l)
    \/ \E l \in Listens : PeerClose(l)

Next == NextShare \/ NextListen \/ NextPipe

Spec == Init /\ [][Next]_vars

(***************************************************************************)
(* SpecWire: the data path alone, from the frame channel to the packet     *)
(* channel.  A Share is running and a Listen of the same model is          *)
(* connected to it: the handlers have returned, the writer has subscribed  *)
(* and accepted the stream, both codec tasks have their codec.  The        *)
(* capture has emitted PreStream + MaxStream frames; the encode task has   *)
(* published the packets of the first PreStream, the others wait in the    *)
(* frame channel; the writer has not been scheduled since it subscribed.   *)
(* No command is issued, the capture delivers nothing more, the network    *)
(* may lose the connection, and the decode task is not scheduled, so that  *)
(* the packet channel keeps every packet it was given.                     *)
(***************************************************************************)
\* the frames 1..n whose packets the bus has stored, in order
RECURSIVE Stored(_)
Stored(n) ==
    IF n = 0 THEN <<>>
    ELSE IF Encode(n).ok THEN Append(Stored(n - 1), n) ELSE Stored(n - 1)

InitWire ==
    /\ platform = "linux"
    /\ shareBudget = 1
    /\ listenBudget = 1
    /\ framesLeft = 0
    /\ chunksLeft = 0
    /\ pc = [c \in Callers |-> "idle"]
    /\ arg = [c \in Callers |-> NoArg]
    /\ ctx = [c \in Callers |-> None]
    /\ ret = Return("start_listening", "Ok")
    /\ shareLock = Free
    /\ share = 1
    /\ nShares = 1
    /\ router = [s \in Shares |-> IF s = 1 THEN "live" ELSE "none"]
    /\ handle = [s \in Shares |-> IF s = 1 THEN "held" ELSE "none"]
    /\ capLoop = [s \in Shares |-> IF s = 1 THEN "running" ELSE "none"]
    /\ source = [s \in Shares |-> IF s = 1 THEN "alive" ELSE "none"]
    /\ nFrames = [s \in Shares |-> IF s = 1 THEN PreStream + MaxStream ELSE 0]
    /\ pcmQ = [s \in Shares |->
                IF s = 1 THEN [i \in 1..MaxStream |-> PreStream + i] ELSE <<>>]
    /\ encTask = [s \in Shares |-> IF s = 1 THEN "running" ELSE "none"]
    /\ bus = [s \in Shares |-> IF s = 1 THEN Stored(PreStream) ELSE <<>>]
    /\ shareEnded = [s \in Shares |-> 0]
    /\ listenLock = Free
    /\ listen = 1
    /\ nListens = 1
    /\ endpoint = [l \in Listens |-> IF l = 1 THEN "open" ELSE "none"]
    /\ peer = [l \in Listens |-> IF l = 1 THEN 1 ELSE None]
    /\ stopSig = [l \in Listens |-> IF l = 1 THEN "pending" ELSE "none"]
    /\ playback = [l \in Listens |-> IF l = 1 THEN "running" ELSE "none"]
    /\ wire = [l \in Listens |-> Empty]
    /\ wireSt = [l \in Listens |-> IF l = 1 THEN "open" ELSE "none"]
    /\ wTask = [l \in Listens |-> IF l = 1 THEN "recv" ELSE "none"]
    /\ wNext = [l \in Listens |-> 0]
    /\ wPkt = [l \in Listens |-> Empty]
    /\ wLen = [l \in Listens |-> 0]
    /\ wOff = [l \in Listens |-> 0]
    /\ recvTask = [l \in Listens |-> IF l = 1 THEN "hdr" ELSE "none"]
    /\ rNeed = [l \in Listens |-> IF l = 1 THEN 2 ELSE 0]
    /\ rBuf = [l \in Listens |-> Empty]
    /\ pktQ = [l \in Listens |-> <<>>]
    /\ decTask = [l \in Listens |-> IF l = 1 THEN "running" ELSE "none"]
    /\ listenEnded = [l \in Listens |-> 0]
    /\ io = NoCall

NextWire ==
    \/ \E s \in Shares : EncodeFrame(s)
    \/ \E l \in Listens : WriterRecv(l)
    \/ \E l \in Listens : WriterHdr(l)
    \/ \E l \in Listens : WriterBody(l)
    \/ \E l \in Listens : RecvHeader(l)
    \/ \E l \in Listens : RecvBody(l)
    \/ \E l \in Listens : RecvReadError(l)
    \/ \E l \in Listens : ConnLost(l)

SpecWire == InitWire /\ [][NextWire]_vars

(***************************************************************************)
(* FairSpec: Spec with the scheduling the code relies on.  A spawned task  *)
(* that can make progress is polled by the runtime, and a command handler  *)
(* whose awaited call can complete continues.  Nothing obliges the UI to   *)
(* issue a command, the capture to deliver a frame, a peer or the network  *)
(* to act, or the transport to hand over a stream.  Of the capture loops   *)
(* only the Linux one is bound to return (CaptureMayExit).                 *)
(***************************************************************************)
Fairness ==
    /\ \A c \in Callers :
        /\ WF_vars(StartSharingFinish(c))
        /\ WF_vars(StopSharingFinish(c))
        /\ WF_vars(StartListeningFinish(c))
        /\ WF_vars(StopListeningFinish(c))
    /\ \A s \in Shares :
        /\ WF_vars(platform = "linux" /\ CaptureLoopExit(s))
        /\ WF_vars(EncodeStart(s))
        /\ WF_vars(EncodeFrame(s))
        /\ WF_vars(EncodeEof(s))
    /\ \A l \in Listens :
        /\ WF_vars(WriterSubscribe(l))
        /\ WF_vars(WriterRecv(l))
        /\ WF_vars(WriterHdr(l))
        /\ WF_vars(WriterBody(l))
        /\ WF_vars(RecvStop(l))
        /\ WF_vars(RecvHeader(l))
        /\ WF_vars(RecvBody(l))
        /\ WF_vars(RecvReadError(l))
        /\ WF_vars(DecodeStart(l))
        /\ WF_vars(DecodePacket(l))
        /\ WF_vars(DecodeEof(l))

FairSpec == Spec /\ Fairness

(***************************************************************************)
(* Properties.                                                             *)
(***************************************************************************)
\* everything a share session consists of, the cell included
shareSession == <<share, nShares, router, capVars, encVars>>
\* everything a listen session consists of, the cell included
listenSession == <<listen, nListens, sessVars, wireVars, writerVars,
                   recvVars, decVars>>

\* C1: a start command that finds its cell occupied returns AlreadyRunning
\* and goes no further: the session in the cell and every part of it stay
\* as they are, no handler goes on to bind an endpoint, no session is
\* created and no task spawned.
C1_DoubleStartRejected ==
    [][\A c \in Callers :
        /\ (share # None /\ StartSharingBegin(c)) =>
              /\ ret' = Return("start_sharing", "AlreadyRunning")
              /\ UNCHANGED <<shareSession, shareLock, pc, arg, ctx>>
        /\ (listen # None /\ StartListeningBegin(c)) =>
              /\ ret' = Return("start_listening", "AlreadyRunning")
              /\ UNCHANGED <<listenSession, listenLock, pc, arg, ctx>>]_vars

\* C1 happens: start_sharing has just been rejected with a live session in
\* the cell
C1_Witness ==
    /\ ret = Return("start_sharing", "AlreadyRunning")
    /\ share # None
    /\ router[share] = "live"
    /\ EncAlive(share)

\* C2: under every interleaving of the commands there is at most one live
\* share session and at most one live listen session at a time: one router,
\* one encode task; one open endpoint, one decode task; a session that is
\* live is the one in the cell or the one a stop handler is shutting down.
\* Start handlers of one role never overlap, so of two concurrent starts on
\* an empty cell at most one creates a session.
C2_AtMostOneRunning ==
    /\ Cardinality({s \in Shares : router[s] = "live"}) <= 1
    /\ Cardinality({s \in Shares : EncAlive(s)}) <= 1
    /\ Cardinality({l \in Listens : endpoint[l] = "open"}) <= 1
    /\ Cardinality({l \in Listens : DecAlive(l)}) <= 1
    /\ Cardinality({c \in Callers : pc[c] \in {"ss_bind", "sp_shutdown"}}) <= 1
    /\ Cardinality({c \in Callers : pc[c] \in {"sl_connect", "sl_close"}}) <= 1
    /\ \A s \in Shares :
        router[s] = "live" =>
            \/ share = s
            \/ \E c \in Callers : pc[c] = "sp_shutdown" /\ ctx[c] = s
    /\ \A l \in Listens :
        endpoint[l] = "open" =>
            \/ listen = l
            \/ \E c \in Callers : pc[c] = "sl_close" /\ ctx[c] = l
    /\ \A s \in Shares : EncAlive(s) => share = s
    /\ \A l \in Listens : DecAlive(l) => listen = l

\* C2 happens: a Share and a Listen are running in the same process while
\* another start_sharing is on its way
C2_Witness ==
    /\ share # None
    /\ listen # None
    /\ router[share] = "live"
    /\ endpoint[listen] = "open"
    /\ ret = Return("start_sharing", "AlreadyRunning")

\* C3: a stop command that finds its cell empty returns success and changes
\* nothing but the value returned.
C3_StopIdempotent ==
    [][\A c \in Callers :
        /\ (share = None /\ StopSharingBegin(c)) =>
              /\ ret' = Return("stop_sharing", "Ok")
              /\ UNCHANGED <<envVars, budgetVars, pc, arg, ctx, shareSide,
                             listenSide>>
        /\ (listen = None /\ StopListeningBegin(c)) =>
              /\ ret' = Return("stop_listening", "Ok")
              /\ UNCHANGED <<envVars, budgetVars, pc, arg, ctx, shareSide,
                             listenSide>>]_vars

\* C3 happens: stop_sharing has returned Ok though no share session was
\* ever created
C3_Witness ==
    /\ ret = Return("stop_sharing", "Ok")
    /\ nShares = 0
    /\ share = None

\* C4: once a pipeline has ended by itself (its ended event is out), the
\* next start of that role is not rejected as AlreadyRunning.
C4_RestartAfterSelfEnd ==
    [][\A c \in Callers :
        /\ (share # None /\ shareEnded[share] >= 1 /\ StartSharingBegin(c))
              => ret'.val # "AlreadyRunning"
        /\ (listen # None /\ listenEnded[listen] >= 1
              /\ StartListeningBegin(c))
              => ret'.val # "AlreadyRunning"]_vars

\* C5: when the captured source has vanished while the encode task is
\* running with its encoder, share-ended is eventually emitted for the
\* session (unless the user stops it first).  Stated for the Windows build
\* with the capture loop past its setup.
C5_ShareEndedOnSourceLoss ==
    \A s \in Shares :
        (/\ source[s] = "vanished"
         /\ share = s
         /\ encTask[s] = "running"
         /\ platform = "windows"
         /\ nFrames[s] >= 1)
            ~> (shareEnded[s] >= 1 \/ share # s)

\* C6: when the receive task has ended, listen-ended is eventually emitted
\* for the session (unless the user stops it first).
C6_ListenEndedOnReadError ==
    \A l \in Listens :
        (recvTask[l] = "ended" /\ listen = l)
            ~> (listenEnded[l] >= 1 \/ listen # l)

\* C7: a codec task whose codec could not be constructed has emitted its
\* ended event, and its session is no longer in the cell.
C7_CodecFailureEndsSession ==
    /\ \A s \in Shares :
        encTask[s] = "failed" => (shareEnded[s] >= 1 /\ share # s)
    /\ \A l \in Listens :
        decTask[l] = "failed" => (listenEnded[l] >= 1 /\ listen # l)

\* C8: every packet a writer puts on the wire has between 1 and
\* MAX_PACKET_SIZE bytes, and its header is that length: the u16 the writer
\* computed equals the length, its two little-endian bytes decode to the
\* length, and they are what the writer has appended to the stream.
C8_PacketLengthAndHeader ==
    \A l \in Listens :
        wTask[l] \in {"hdr", "body"} =>
            /\ 1 <= BLen(wPkt[l])
            /\ BLen(wPkt[l]) <= MAX_PACKET_SIZE
            /\ wLen[l] = BLen(wPkt[l])
            /\ BLen(ToLeBytes(wLen[l])) = 2
            /\ FromLeBytes(ToLeBytes(wLen[l])) = BLen(wPkt[l])
            /\ (wTask[l] = "body" /\ wOff[l] = 0 /\ BLen(wire[l]) >= 2) =>
                  BDrop(wire[l], BLen(wire[l]) - 2) = ToLeBytes(BLen(wPkt[l]))

\* C8 happens: the header of a packet of the greatest length is on the wire
\* and its body is about to follow
C8_Witness ==
    \E l \in Listens :
        /\ wTask[l] = "body"
        /\ wOff[l] = 0
        /\ BLen(wPkt[l]) = MAX_PACKET_SIZE
        /\ BLen(wire[l]) >= 2

\* C9: no packet of length 0 is ever handed to the packet channel.
C9_ZeroLengthRejected ==
    \A l \in Listens :
        \A i \in 1..Len(pktQ[l]) : pktQ[l][i] # Empty

\* the frame a packet of this model names (PacketBytes)
FrameOf(packet) == packet[1][1]

\* C10: every packet handed to the packet channel is, byte for byte, one
\* packet the sharer published, whole; the packets arrive in the order of
\* publication, none twice.
C10_PacketBoundaries ==
    \A l \in Listens :
        LET published == {bus[peer[l]][j] : j \in 1..Len(bus[peer[l]])} IN
        \A i \in 1..Len(pktQ[l]) :
            LET packet == pktQ[l][i] IN
            /\ packet # Empty
            /\ \E f \in published \cap {FrameOf(packet)} :
                  packet = Encode(f).packet
            /\ i > 1 => FrameOf(pktQ[l][i - 1]) < FrameOf(packet)

\* C10 happens: the writer lagged (the first packet delivered is not the
\* first one published), packets of different lengths were delivered, and
\* a write failed with a packet partly on the wire
C10_Witness ==
    \E l \in Listens :
        /\ Len(pktQ[l]) >= 2
        /\ FrameOf(pktQ[l][1]) # bus[peer[l]][1]
        /\ BLen(pktQ[l][1]) # BLen(pktQ[l][2])
        /\ wTask[l] = "done"
        /\ 0 < wOff[l]
        /\ wOff[l] < BLen(wPkt[l])

(***************************************************************************)
(* Ordering along the pipeline.  The capture numbers its frames 1, 2, ...  *)
(* in the order it emits them (nFrames); a packet carries the number of    *)
(* the frame it encodes.                                                   *)
(***************************************************************************)
\* the numbers grow along the sequence: nothing twice, nothing out of order
Increasing(q) == \A i \in 1..(Len(q) - 1) : q[i] < q[i + 1]

\* the frames of the packets the decode task receives, in channel order
Observed(l) == [i \in 1..Len(pktQ[l]) |-> FrameOf(pktQ[l][i])]

\* C11: the frames a listener's decode task receives are frames the
\* sharer's capture emitted, in the order of emission and none twice: the
\* frame channel, the bus and the packet channel each hold their frames in
\* increasing order, and whatever the decode task is given is older than
\* the packet the writer holds and than every frame still to be encoded.
C11_OrderPreserved ==
    \A l \in Listens :
        peer[l] # None =>
            LET s == peer[l] IN
            /\ Increasing(pcmQ[s])
            /\ Increasing(bus[s])
            /\ Increasing(Observed(l))
            /\ \A i \in 1..Len(pktQ[l]) :
                /\ Observed(l)[i] \in 1..nFrames[s]
                /\ pcmQ[s] # <<>> => Observed(l)[i] < Head(pcmQ[s])
                /\ wTask[l] \in {"hdr", "body"} =>
                      Observed(l)[i] < FrameOf(wPkt[l])

\* C11 happens: whole frames are missing from what the decode task is given
\* (the first by the writer's lag, a later one between two delivered ones)
\* and the rest is in order
C11_Witness ==
    \E l \in Listens :
        /\ Len(pktQ[l]) >= 3
        /\ Observed(l)[1] > 1
        /\ \E i \in 1..(Len(pktQ[l]) - 1) :
              Observed(l)[i + 1] > Observed(l)[i] + 1

(***************************************************************************)
(* SpecFan: one sharer with two listeners.  The listeners run in two       *)
(* other processes (this process's listen cell is empty); each has its     *)
(* connection, its writer task on the sharer and its receive task.  The    *)
(* writer of listener 1 subscribed first and has not been scheduled since, *)
(* and listener 1 does not read its stream; the writer of listener 2 has   *)
(* sent all but the last FanBacklog packets.  As in SpecWire the encode    *)
(* task has published the packets of the first PreStream frames and        *)
(* MaxStream frames wait in the frame channel.                             *)
(***************************************************************************)
\* the listeners whose receive task is not scheduled
Stalled == {1}

InitFan ==
    /\ platform = "linux"
    /\ shareBudget = 1
    /\ listenBudget = 0
    /\ framesLeft = 0
    /\ chunksLeft = 0
    /\ pc = [c \in Callers |-> "idle"]
    /\ arg = [c \in Callers |-> NoArg]
    /\ ctx = [c \in Callers |-> None]
    /\ ret = Return("start_sharing", "Ok")
    /\ shareLock = Free
    /\ share = 1
    /\ nShares = 1
    /\ router = [s \in Shares |-> IF s = 1 THEN "live" ELSE "none"]
    /\ handle = [s \in Shares |-> IF s = 1 THEN "held" ELSE "none"]
    /\ capLoop = [s \in Shares |-> IF s = 1 THEN "running" ELSE "none"]
    /\ source = [s \in Shares |-> IF s = 1 THEN "alive" ELSE "none"]
    /\ nFrames = [s \in Shares |-> IF s = 1 THEN PreStream + MaxStream ELSE 0]
    /\ pcmQ = [s \in Shares |->
                IF s = 1 THEN [i \in 1..MaxStream |-> PreStream + i] ELSE <<>>]
    /\ encTask = [s \in Shares |-> IF s = 1 THEN "running" ELSE "none"]
    /\ bus = [s \in Shares |-> IF s = 1 THEN Stored(PreStream) ELSE <<>>]
    /\ shareEnded = [s \in Shares |-> 0]
    /\ listenLock = Free
    /\ listen = None
    /\ nListens = 0
    /\ endpoint = [l \in Listens |-> "open"]
    /\ peer = [l \in Listens |-> 1]
    /\ stopSig = [l \in Listens |-> "pending"]
    /\ playback = [l \in Listens |-> "running"]
    /\ wire = [l \in Listens |-> Empty]
    /\ wireSt = [l \in Listens |-> "open"]
    /\ wTask = [l \in Listens |-> "recv"]
    /\ wNext = [l \in Listens |->
                 IF l \in Stalled THEN 0
                 ELSE Len(Stored(PreStream)) - FanBacklog]
    /\ wPkt = [l \in Listens |-> Empty]
    /\ wLen = [l \in Listens |-> 0]
    /\ wOff = [l \in Listens |-> 0]
    /\ recvTask = [l \in Listens |-> "hdr"]
    /\ rNeed = [l \in Listens |-> 2]
    /\ rBuf = [l \in Listens |-> Empty]
    /\ pktQ = [l \in Listens |-> <<>>]
    /\ decTask = [l \in Listens |-> "running"]
    /\ listenEnded = [l \in Listens |-> 0]
    /\ io = NoCall

NextFan ==
    \/ \E s \in Shares : EncodeFrame(s)
    \/ \E l \in Listens : WriterRecv(l)
    \/ \E l \in Listens : WriterHdr(l)
    \/ \E l \in Listens : WriterBody(l)
    \/ \E l \in Listens \ Stalled : RecvHeader(l)
    \/ \E l \in Listens \ Stalled : RecvBody(l)

SpecFan == InitFan /\ [][NextFan]_vars

\* the writer's write can put at least one byte on the stream
CanWrite(l) == wireSt[l] = "open" /\ WireRoom(l) > 0

\* C12: the encode task's publish never waits for a writer, and a writer's
\* progress depends only on its own position on the bus and on its own
\* stream: whenever the encode task has a frame it can publish it, and
\* whenever a writer has a packet to take or room to write it can do so,
\* whatever the state of the other writer.
C12_NoHeadOfLineBlocking ==
    /\ \A s \in Shares :
        (encTask[s] = "running" /\ pcmQ[s] # <<>>) => ENABLED EncodeFrame(s)
    /\ \A l \in Listens :
        /\ (wTask[l] = "recv" /\ wNext[l] < Len(bus[peer[l]])) =>
              ENABLED WriterRecv(l)
        /\ (wTask[l] = "hdr" /\ CanWrite(l) /\ WireRoom(l) >= 2) =>
              ENABLED WriterHdr(l)
        /\ (wTask[l] = "body" /\ CanWrite(l)) => ENABLED WriterBody(l)

\* C12 happens: the writer of listener 1 has lagged and is blocked in a
\* write on a full stream, the encode task has published everything, and
\* listener 2 has received the newest packet
C12_Witness ==
    /\ wTask[1] \in {"hdr", "body"}
    /\ WireRoom(1) = 0
    /\ wNext[1] < Len(bus[1])
    /\ pcmQ[1] = <<>>
    /\ pktQ[2] # <<>>
    /\ FrameOf(pktQ[2][Len(pktQ[2])]) = bus[1][Len(bus[1])]
    /\ bus[1][Len(bus[1])] > PreStream

\* the writer's recv() reports Lagged in this step
LagReported(l) ==
    /\ wTask[l] = "recv"
    /\ wNext[l] < OldestRetained(peer[l])
    /\ wNext'[l] # wNext[l]

\* C13: when the bus reports a lag to a writer, the writer resumes from the
\* newest packet: the next packet it takes is the one published last at the
\* moment of the report, so that nothing published before that one is sent
\* after the lag.
C13_LagResumesAtNewest ==
    [][\A l \in Listens :
          LagReported(l) => wNext'[l] >= Len(bus[peer[l]]) - 1]_vars

\* C14: once the CaptureHandle of a session is dropped, the capture loop of
\* that session eventually exits, also when the captured application
\* produces no audio (here on Windows, the loop having delivered a frame).
C14_DropStopsCapture ==
    \A s \in Shares :
        (handle[s] = "dropped" /\ platform = "windows" /\ nFrames[s] >= 1)
            ~> (capLoop[s] # "running")

(***************************************************************************)
(* SpecTicket: the ticket codec on its own.  The program is idle; a text   *)
(* is made from a ticket by to_string_encoded, copied with whitespace      *)
(* around it or not, and given to from_string_encoded; or a text that is   *)
(* no ticket is given to from_string_encoded.                              *)
(***************************************************************************)
\* the state of the program while a function is called on its own
Idle ==
    /\ shareBudget = 0
    /\ listenBudget = 0
    /\ framesLeft = 0
    /\ chunksLeft = 0
    /\ InitState

\* everything but io
progVars == <<platform, shareBudget, listenBudget, budgetVars, callVars,
              shareSide, listenSide>>

\* addresses: up to MaxAddrLen digits, so that the payload has every length
\* modulo 3
Addrs == UNION {[1..n -> 0..MaxShares] : n \in 1..MaxAddrLen}

\* whitespace a copy may add on either side
Pads == {<<>>, <<32, 32>>, <<10>>, <<9>>, <<13, 10>>, <<12>>}

\* texts that are not tickets
GarbageTexts == {BadBase64Text, BadJsonText, <<>>, <<32>>}

InitTicket ==
    /\ Idle
    /\ platform = "linux"
    /\ \/ \E t \in Addrs :
            io = [fn |-> "ticket", at |-> "start", ticket |-> t,
                  text |-> <<>>, out |-> [ok |-> FALSE, ticket |-> <<>>]]
       \/ \E g \in GarbageTexts :
            io = [fn |-> "garbage", at |-> "text", ticket |-> <<>>,
                  text |-> g, out |-> [ok |-> FALSE, ticket |-> <<>>]]

\* ticket.to_string_encoded()
TicketEncode ==
    /\ io.fn = "ticket"
    /\ io.at = "start"
    /\ io' = [io EXCEPT !.at = "text", !.text = ToStringEncoded(io.ticket)]
    /\ UNCHANGED progVars

\* the user copies the text, with whitespace before and after
TicketCopy ==
    /\ io.fn = "ticket"
    /\ io.at = "text"
    /\ \E a \in Pads, b \in Pads :
        io' = [io EXCEPT !.at = "copy", !.text = a \o @ \o b]
    /\ UNCHANGED progVars

\* Ticket::from_string_encoded(&text)
TicketDecode ==
    /\ io.fn \in {"ticket", "garbage"}
    /\ io.at \in {"text", "copy"}
    /\ io' = [io EXCEPT !.at = "decoded", !.out = FromStringEncoded(io.text)]
    /\ UNCHANGED progVars

NextTicket == TicketEncode \/ TicketCopy \/ TicketDecode

SpecTicket == InitTicket /\ [][NextTicket]_vars

\* C15: a ticket encoded and decoded is the same ticket, also when the text
\* was copied with ASCII whitespace before and after it, and the encoded
\* text has none of the characters '+', '/' and '='.
C15_TicketRoundTrip ==
    io.fn = "ticket" =>
        /\ io.at = "text" =>
              /\ io.text = ToStringEncoded(io.ticket)
              /\ \A i \in 1..Len(io.text) : io.text[i] \notin {43, 47, 61}
        /\ io.at = "decoded" =>
              /\ io.out.ok
              /\ io.out.ticket = io.ticket

\* C15 happens: a ticket whose payload needs a partial last group was
\* encoded, copied with whitespace on both sides, and decoded
C15_Witness ==
    /\ io.fn = "ticket"
    /\ io.at = "decoded"
    /\ Len(io.ticket) = MaxAddrLen
    /\ IsSpace(io.text[1])
    /\ IsSpace(io.text[Len(io.text)])
    /\ io.text # Trim(io.text)

\* C16: the text that is not base64url and the base64url text whose payload
\* is not a serialized Ticket both fail to decode, and start_listening
\* called with either on an empty listen cell returns the decoding error
\* and changes nothing else: no endpoint, no task, the cell still empty.
C16_BadTicketRejected ==
    [][\A c \in Callers : \A text \in {BadBase64Text, BadJsonText} :
          (StartListeningWith(c, text) /\ listen = None) =>
              /\ ~B64Decode(Trim(BadBase64Text)).ok
              /\ B64Decode(Trim(BadJsonText)).ok
              /\ ~FromJson(B64Decode(Trim(BadJsonText)).bytes).ok
              /\ ret' = Return("start_listening", "BadTicket")
              /\ listen' = None
              /\ UNCHANGED <<pc, arg, ctx, shareSide, listenSide>>]_vars

\* C16 happens: start_listening has just failed on the ticket, after an
\* earlier listen session has ended, and no endpoint is open
C16_Witness ==
    /\ ret = Return("start_listening", "BadTicket")
    /\ listen = None
    /\ nListens >= 1
    /\ \A l \in Listens : endpoint[l] \in {"none", "closed", "dropped"}
    /\ \A c \in Callers : pc[c] = "idle"

\* a step of one of the two sharing commands, of one of the listening ones
ShareCommand(c) ==
    \/ StartSharingBegin(c)
    \/ StartSharingFinish(c)
    \/ StopSharingBegin(c)
    \/ StopSharingFinish(c)

ListenCommand(c) ==
    \/ StartListeningBegin(c)
    \/ StartListeningFinish(c)
    \/ StopListeningBegin(c)
    \/ StopListeningFinish(c)

\* C17: the two cells are independent: no step of start_sharing or
\* stop_sharing changes the listen cell or its lock, none of start_listening
\* or stop_listening the share cell or its lock, and a start on an empty
\* cell goes ahead (or fails on its ticket) whatever the other cell holds.
C17_CellsIndependent ==
    [][\A c \in Callers :
        /\ ShareCommand(c) => UNCHANGED listenCell
        /\ ListenCommand(c) => UNCHANGED shareCell
        /\ (StartSharingBegin(c) /\ share = None) =>
              (pc'[c] # "idle" /\ ret' = ret)
        /\ (StartListeningBegin(c) /\ listen = None) =>
              \/ pc'[c] # "idle" /\ ret' = ret
              \/ ret' = Return("start_listening", "BadTicket")]_vars

\* C17 happens: start_sharing has returned Ok while a listen session was
\* running, and both sessions run
C17_Witness ==
    /\ ret = Return("start_sharing", "Ok")
    /\ listen # None
    /\ endpoint[listen] = "open"
    /\ share # None
    /\ router[share] = "live"

\* C18: once stop is signalled to a listen session (a value sent on the stop
\* oneshot, or its Sender dropped with the session), the receive task
\* exits, wherever in its loop it is and whatever the peer does or does not
\* send.
C18_StopWinsRace ==
    \A l \in Listens :
        (stopSig[l] \in {"sent", "dropped"} /\ RecvAlive(l))
            ~> (recvTask[l] = "ended")

(***************************************************************************)
(* SpecSources: list_sources on its own.  The OS enumerates up to MaxApps  *)
(* applications, in an order of its own; a name is a text of ASCII codes,  *)
(* an id the position in the enumeration.                                  *)
(***************************************************************************)
\* char::to_lowercase on ASCII
LowerChar(c) == IF c \in 65..90 THEN c + 32 ELSE c

\* String::to_lowercase
ToLowercase(name) == [i \in 1..Len(name) |-> LowerChar(name[i])]

\* Ord for strings: a <= b, byte by byte
RECURSIVE StrLeq(_, _)
StrLeq(a, b) ==
    IF a = <<>> THEN TRUE
    ELSE IF b = <<>> THEN FALSE
    ELSE IF Head(a) # Head(b) THEN Head(a) < Head(b)
    ELSE StrLeq(Tail(a), Tail(b))

\* windows.rs 92: the place sort_by, a stable sort, gives an entry among
\* entries already in order: after those that do not compare greater
RECURSIVE InsertByLower(_, _)
InsertByLower(x, sorted) ==
    IF sorted = <<>> THEN <<x>>
    ELSE IF StrLeq(ToLowercase(Head(sorted).name), ToLowercase(x.name))
    THEN <<Head(sorted)>> \o InsertByLower(x, Tail(sorted))
    ELSE <<x>> \o sorted

RECURSIVE SortByLower(_)
SortByLower(srcs) ==
    IF srcs = <<>> THEN <<>>
    ELSE InsertByLower(srcs[Len(srcs)],
                       SortByLower(SubSeq(srcs, 1, Len(srcs) - 1)))

\* windows.rs 93: Vec::dedup_by removes an entry whose name equals the name
\* of the entry kept just before it
RECURSIVE DedupByName(_)
DedupByName(srcs) ==
    IF Len(srcs) < 2 THEN srcs
    ELSE LET kept == DedupByName(SubSeq(srcs, 1, Len(srcs) - 1))
             x == srcs[Len(srcs)]
         IN  IF kept[Len(kept)].name = x.name THEN kept ELSE Append(kept, x)

\* the AudioSource values in the order of the enumeration
Enumerated(apps) == [i \in 1..Len(apps) |-> [id |-> i, name |-> apps[i]]]

\* capture/mod.rs 36-45: list_sources of the build's backend
ListSourcesOf(os, apps) ==
    IF os = "windows" THEN DedupByName(SortByLower(Enumerated(apps)))
    ELSE Enumerated(apps)

\* display names: "A", "a", "B", "b"
AppNames == {<<65>>, <<97>>, <<66>>, <<98>>}

AppLists == UNION {[1..n -> AppNames] : n \in 0..MaxApps}

InitSources ==
    /\ Idle
    /\ platform \in Platforms
    /\ \E apps \in AppLists :
        io = [fn |-> "sources", at |-> "start", apps |-> apps, out |-> <<>>]

ListSources ==
    /\ io.fn = "sources"
    /\ io.at = "start"
    /\ io' = [io EXCEPT !.at = "listed",
                        !.out = ListSourcesOf(platform, io.apps)]
    /\ UNCHANGED progVars

NextSources == ListSources

SpecSources == InitSources /\ [][NextSources]_vars

\* C19: the list list_sources returns has no two entries with the same
\* display name and is in the order of the names compared without regard
\* to case, on every backend and for every enumeration.
C19_SourcesSortedDeduped ==
    (io.fn = "sources" /\ io.at = "listed") =>
        \A i, j \in 1..Len(io.out) :
            i < j =>
                /\ io.out[i].name # io.out[j].name
                /\ StrLeq(ToLowercase(io.out[i].name),
                          ToLowercase(io.out[j].name))

(***************************************************************************)
(* SpecReblock: the reblocker on its own.  The OS calls the capture        *)
(* callback up to MaxCallbacks times with buffers of any size.  A sample   *)
(* is named by its arrival number; samples are kept as runs <<first, n>>   *)
(* of n consecutive arrival numbers.                                       *)
(***************************************************************************)
\* samples in a sequence of runs
RECURSIVE SLen(_)
SLen(rs) == IF rs = <<>> THEN 0 ELSE Head(rs)[2] + SLen(Tail(rs))

\* Vec::extend_from_slice with the run <<first, n>>
SExtend(rs, first, n) ==
    IF n = 0 THEN rs
    ELSE IF rs # <<>> /\ rs[Len(rs)][1] + rs[Len(rs)][2] = first
    THEN [rs EXCEPT ![Len(rs)] = <<@[1], @[2] + n>>]
    ELSE Append(rs, <<first, n>>)

RECURSIVE SCat(_, _)
SCat(a, b) ==
    IF b = <<>> THEN a
    ELSE SCat(SExtend(a, Head(b)[1], Head(b)[2]), Tail(b))

\* the first k samples, the samples after the first k
RECURSIVE STake(_, _)
STake(rs, k) ==
    IF k = 0 \/ rs = <<>> THEN <<>>
    ELSE IF Head(rs)[2] <= k
    THEN <<Head(rs)>> \o STake(Tail(rs), k - Head(rs)[2])
    ELSE <<<<Head(rs)[1], k>>>>

RECURSIVE SDrop(_, _)
SDrop(rs, k) ==
    IF k = 0 \/ rs = <<>> THEN rs
    ELSE IF Head(rs)[2] <= k THEN SDrop(Tail(rs), k - Head(rs)[2])
    ELSE <<<<Head(rs)[1] + k, Head(rs)[2] - k>>>> \o Tail(rs)

\* bytemuck_cast_slice: the whole f32 samples of a byte buffer
SamplesIn(bytes) == bytes \div 4

\* a reblocker that takes one frame at most out of the accumulator
DrainOnce(acc, frames) ==
    IF SLen(acc) >= SAMPLES_PER_FRAME
    THEN [acc |-> SDrop(acc, SAMPLES_PER_FRAME),
          frames |-> Append(frames, STake(acc, SAMPLES_PER_FRAME))]
    ELSE [acc |-> acc, frames |-> frames]

\* a capture that sends each buffer on as it came
DrainWhole(acc, frames) ==
    IF acc # <<>>
    THEN [acc |-> <<>>, frames |-> Append(frames, acc)]
    ELSE [acc |-> acc, frames |-> frames]

\* linux.rs 152-155: while acc.len() >= SAMPLES_PER_FRAME, the first
\* SAMPLES_PER_FRAME samples are drained into a frame and the frame is sent
RECURSIVE Drain(_, _)
Drain(acc, frames) ==
    IF SLen(acc) >= SAMPLES_PER_FRAME
    THEN Drain(SDrop(acc, SAMPLES_PER_FRAME),
               Append(frames, STake(acc, SAMPLES_PER_FRAME)))
    ELSE [acc |-> acc, frames |-> frames]

\* buffer sizes in bytes: empty, one sample, a sample and a half, 10 ms,
\* one sample less than a frame, a frame, one sample more, two frames, 50 ms
BufferBytes == {0, 4, 6, 3840, 7676, 7680, 7684, 15360, 19200}

InitReblock ==
    /\ Idle
    /\ platform \in Platforms
    /\ io = [fn |-> "reblock", calls |-> 0, received |-> 0, acc |-> <<>>,
             frames |-> <<>>, taken |-> 0, panicked |-> FALSE]

\* linux.rs 143-157, macos.rs 91-110, windows.rs 178-193: one callback (one
\* read on Windows): the buffer is cast to samples, appended to the
\* accumulator, and the whole frames are drained
OsCallback ==
    /\ io.fn = "reblock"
    /\ io.calls < MaxCallbacks
    /\ \E bytes \in BufferBytes :
        LET n == SamplesIn(bytes)
            d == Drain(SExtend(io.acc, io.received + 1, n), io.frames)
        IN  io' = [io EXCEPT !.calls = @ + 1,
                             !.received = @ + n,
                             !.acc = d.acc,
                             !.frames = d.frames]
    /\ UNCHANGED progVars

\* codec.rs 31-36: assert_eq!(pcm.len(), SAMPLES_PER_FRAME)
EncodeLenOk(pcm) == SLen(pcm) = SAMPLES_PER_FRAME

\* app.rs 87-88: the encode task receives the next frame of the channel and
\* calls encoder.encode(&pcm_frame); a failed assertion panics the task
EncodeTake ==
    /\ io.fn = "reblock"
    /\ ~io.panicked
    /\ io.taken < Len(io.frames)
    /\ io' = [io EXCEPT !.taken = @ + 1,
                        !.panicked = ~EncodeLenOk(io.frames[io.taken + 1])]
    /\ UNCHANGED progVars

NextReblock == OsCallback \/ EncodeTake

SpecReblock == InitReblock /\ [][NextReblock]_vars

\* the emitted frames one after the other
RECURSIVE Flat(_)
Flat(frames) ==
    IF frames = <<>> THEN <<>> ELSE SCat(Head(frames), Flat(Tail(frames)))

\* C20: after every capture callback the accumulator holds fewer than
\* SAMPLES_PER_FRAME samples, every emitted frame has SAMPLES_PER_FRAME
\* samples, and the emitted frames followed by the accumulator are the
\* samples received, each once and in the order of arrival.
C20_ReblockerInvariant ==
    io.fn = "reblock" =>
        /\ SLen(io.acc) < SAMPLES_PER_FRAME
        /\ \A i \in 1..Len(io.frames) :
              SLen(io.frames[i]) = SAMPLES_PER_FRAME
        /\ SCat(Flat(io.frames), io.acc) =
              (IF io.received = 0 THEN <<>> ELSE <<<<1, io.received>>>>)

\* C20 happens: after the last callback more frames have been emitted than
\* there were buffers (one buffer gave several), and samples that do not
\* fill a frame wait in the accumulator
C20_Witness ==
    /\ io.fn = "reblock"
    /\ io.calls = MaxCallbacks
    /\ Len(io.frames) > io.calls
    /\ io.acc # <<>>
    /\ io.received % SAMPLES_PER_FRAME # 0

\* C21: every frame the capture has put on the frame channel has exactly
\* SAMPLES_PER_FRAME samples, and the length assertion of Encoder::encode
\* has not failed for any frame the encode task has taken.
C21_FrameLengthAsserted ==
    io.fn = "reblock" =>
        /\ ~io.panicked
        /\ \A i \in (io.taken + 1)..Len(io.frames) :
              EncodeLenOk(io.frames[i])

\* C21 happens: buffers that are not multiples of a frame have been
\* reblocked and the encode task has taken every frame
C21_Witness ==
    /\ io.fn = "reblock"
    /\ io.calls = MaxCallbacks
    /\ io.received % SAMPLES_PER_FRAME # 0
    /\ io.taken = Len(io.frames)
    /\ io.taken >= 2
    /\ ~io.panicked

(***************************************************************************)
(* SpecChan: the frame channel near its capacity.  A Share is running      *)
(* with no listener; the capture has emitted ChanBacklog frames that the   *)
(* encode task, which has its encoder, has not received yet; the capture   *)
(* emits MaxFrames more.                                                   *)
(***************************************************************************)
InitChan ==
    /\ platform \in Platforms
    /\ shareBudget = 1
    /\ listenBudget = 0
    /\ framesLeft = MaxFrames
    /\ chunksLeft = 0
    /\ io = NoCall
    /\ pc = [c \in Callers |-> "idle"]
    /\ arg = [c \in Callers |-> NoArg]
    /\ ctx = [c \in Callers |-> None]
    /\ ret = Return("start_sharing", "Ok")
    /\ shareLock = Free
    /\ share = 1
    /\ nShares = 1
    /\ router = [s \in Shares |-> IF s = 1 THEN "live" ELSE "none"]
    /\ handle = [s \in Shares |-> IF s = 1 THEN "held" ELSE "none"]
    /\ capLoop = [s \in Shares |-> IF s = 1 THEN "running" ELSE "none"]
    /\ source = [s \in Shares |-> IF s = 1 THEN "alive" ELSE "none"]
    /\ nFrames = [s \in Shares |-> IF s = 1 THEN ChanBacklog ELSE 0]
    /\ pcmQ = [s \in Shares |->
                IF s = 1 THEN [i \in 1..ChanBacklog |-> i] ELSE <<>>]
    /\ encTask = [s \in Shares |-> IF s = 1 THEN "running" ELSE "none"]
    /\ bus = [s \in Shares |-> <<>>]
    /\ shareEnded = [s \in Shares |-> 0]
    /\ listenLock = Free
    /\ listen = None
    /\ nListens = 0
    /\ endpoint = [l \in Listens |-> "none"]
    /\ peer = [l \in Listens |-> None]
    /\ stopSig = [l \in Listens |-> "none"]
    /\ playback = [l \in Listens |-> "none"]
    /\ wire = [l \in Listens |-> Empty]
    /\ wireSt = [l \in Listens |-> "none"]
    /\ wTask = [l \in Listens |-> "none"]
    /\ wNext = [l \in Listens |-> 0]
    /\ wPkt = [l \in Listens |-> Empty]
    /\ wLen = [l \in Listens |-> 0]
    /\ wOff = [l \in Listens |-> 0]
    /\ recvTask = [l \in Listens |-> "none"]
    /\ rNeed = [l \in Listens |-> 0]
    /\ rBuf = [l \in Listens |-> Empty]
    /\ pktQ = [l \in Listens |-> <<>>]
    /\ decTask = [l \in Listens |-> "none"]
    /\ listenEnded = [l \in Listens |-> 0]

NextChan ==
    \/ \E s \in Shares : CaptureFrame(s)
    \/ \E s \in Shares : EncodeFrame(s)

SpecChan == InitChan /\ [][NextChan]_vars

\* the capture has a frame to enqueue and the frame channel is at capacity
ChannelFull(s) ==
    /\ capLoop[s] = "running"
    /\ source[s] = "alive"
    /\ framesLeft > 0
    /\ PcmRxAlive(s)
    /\ Len(pcmQ[s]) = FrameChanCap

\* C22: with the frame channel at capacity the capture is never made to
\* wait: it can always go on with its next frame, which is dropped, the
\* queued frames staying as they are.
C22_FullChannelDropsNewest ==
    \A s \in Shares :
        ChannelFull(s) => ENABLED (CaptureFrame(s) /\ pcmQ' = pcmQ)

(***************************************************************************)
(* SpecRing: the playback ring buffer between the decode task and the      *)
(* output callback.  Decoded samples are named by their number in decoding *)
(* order and kept as runs.  The decode task pushes the samples of a frame  *)
(* one by one and the callback pops one per output slot; the two run on    *)
(* different threads, so pushes and pops interleave sample by sample: a    *)
(* step pushes (or pops) some of the samples that are left of the frame    *)
(* (of the callback's buffer) with nothing of the other side in between.   *)
(***************************************************************************)
\* a ring that makes room for a new sample by dropping the oldest
PushOverwrite(ring, first, k) ==
    LET all == SExtend(ring, first, k) IN
    SDrop(all, Max(0, SLen(all) - RING_CAPACITY))

\* app.rs 160-164: k times `let _ = producer.push(sample)`: a sample goes in
\* while the ring has a free slot, the others get Err(Full) and are dropped
PushSamples(ring, first, k) ==
    SExtend(ring, first, Min(k, RING_CAPACITY - SLen(ring)))

\* the parts a run of n pushes or pops may be cut into next: all of it, half
\* a frame, or a single sample at a half-frame boundary
Parts(n) == {k \in {1, 960, n} : k <= n /\ (k = 1 => n % 960 = 0)}

\* the number of slots of the callback's buffer
CallbackSlots == {512, 1920, 20160}

\* samples in the ring when a behaviour begins: none, almost full, full
RingFills == {0, RING_CAPACITY - 960, RING_CAPACITY}

\* a take that hands the producer out and leaves it in the stream as well
TakeKeeps(slot) ==
    [slot |-> slot, got |-> slot = "some", panicked |-> slot # "some"]

\* playback.rs 60-62: self.producer.take().expect("Producer already taken"):
\* Option::take leaves None in the stream; expect panics on None
TakeProducer(slot) ==
    [slot |-> "none", got |-> slot = "some", panicked |-> slot # "some"]

\* a stream begins with its producer in place (playback.rs 51-54); one whose
\* ring already holds samples has had it taken by start_listening
InitRing ==
    /\ Idle
    /\ platform = "linux"
    /\ \E k \in RingFills :
        io = [fn |-> "ring",
              slot |-> IF k = 0 THEN "some" ELSE "none",
              takes |-> IF k = 0 THEN 0 ELSE 1,
              spawned |-> k # 0,
              panicked |-> FALSE,
              decoder |-> 1,
              errors |-> 0,
              ended |-> FALSE,
              ring |-> SExtend(<<>>, 1, k),
              decoded |-> k,
              pend |-> <<>>,
              out |-> <<>>,
              silence |-> 0,
              slots |-> 0,
              decodes |-> 0,
              plays |-> 0]

\* app.rs 144-148: start_listening takes the producer of the stream it has
\* just started and spawns the decode task, which owns the producer
RingTake ==
    /\ io.fn = "ring"
    /\ ~io.spawned
    /\ LET t == TakeProducer(io.slot) IN
       io' = [io EXCEPT !.slot = t.slot,
                        !.takes = @ + 1,
                        !.panicked = t.panicked,
                        !.spawned = t.got]
    /\ UNCHANGED progVars

\* decoder.decode(&packet) returns the frame or an error
DecodeOutcomes == {"ok", "err"}

\* a decode task that gives up on the first packet it cannot decode
DecodeErrBreaks == TRUE

\* app.rs 166-168: the Err arm logs and the loop goes on
DecodeErrEnds == FALSE

\* app.rs 157-169: a packet is received and decoded into a frame, or the
\* decode error is logged
RingDecode ==
    /\ io.fn = "ring"
    /\ io.spawned
    /\ ~io.ended
    /\ io.pend = <<>>
    /\ io.decodes < MaxDecodes
    /\ \E o \in DecodeOutcomes :
        io' = IF o = "ok"
              THEN [io EXCEPT !.decodes = @ + 1,
                              !.pend = <<io.decoded + 1, SAMPLES_PER_FRAME>>,
                              !.decoded = @ + SAMPLES_PER_FRAME]
              ELSE [io EXCEPT !.decodes = @ + 1,
                              !.errors = @ + 1,
                              !.ended = DecodeErrEnds]
    /\ UNCHANGED progVars

\* app.rs 157, 172-173: recv() returns None: the loop ends and the task
\* emits "listen-ended"
RingEof ==
    /\ io.fn = "ring"
    /\ io.spawned
    /\ ~io.ended
    /\ io.pend = <<>>
    /\ io' = [io EXCEPT !.ended = TRUE]
    /\ UNCHANGED progVars

\* app.rs 160-164: the next samples of the frame are pushed
RingPush ==
    /\ io.fn = "ring"
    /\ io.pend # <<>>
    /\ \E k \in Parts(io.pend[2]) :
        io' = [io EXCEPT !.ring = PushSamples(@, io.pend[1], k),
                         !.pend = IF k = io.pend[2] THEN <<>>
                                  ELSE <<io.pend[1] + k, io.pend[2] - k>>]
    /\ UNCHANGED progVars

\* playback.rs 39: the device calls the output callback with a buffer
RingCallback ==
    /\ io.fn = "ring"
    /\ io.slots = 0
    /\ io.plays < MaxPlays
    /\ \E n \in CallbackSlots : io' = [io EXCEPT !.plays = @ + 1, !.slots = n]
    /\ UNCHANGED progVars

\* playback.rs 40-42: the next slots are filled: consumer.pop(), or
\* Sample::EQUILIBRIUM when the ring is empty
RingPop ==
    /\ io.fn = "ring"
    /\ io.slots > 0
    /\ \E k \in Parts(io.slots) :
        LET got == Min(k, SLen(io.ring)) IN
        io' = [io EXCEPT !.out = SCat(@, STake(io.ring, got)),
                         !.ring = SDrop(@, got),
                         !.silence = @ + (k - got),
                         !.slots = @ - k]
    /\ UNCHANGED progVars

NextRing ==
    RingTake \/ RingDecode \/ RingEof \/ RingPush \/ RingCallback \/ RingPop

SpecRing == InitRing /\ [][NextRing]_vars

\* the runs are in increasing order of sample number, none overlapping,
\* and lie within the first n samples
InOrder(rs, n) ==
    \A i \in 1..Len(rs) :
        /\ rs[i][1] >= 1
        /\ rs[i][2] >= 1
        /\ rs[i][1] + rs[i][2] - 1 <= n
        /\ i > 1 => rs[i - 1][1] + rs[i - 1][2] <= rs[i][1]

\* C23: a push on a full ring drops the sample and leaves the ring as it
\* is, a pop on an empty ring gives silence for the slot, neither side ever
\* waits for the other, and the samples output followed by those in the
\* ring are decoded samples in decoding order, none twice.
C23_RingPolicy ==
    [][io.fn = "ring" =>
        /\ SLen(io'.ring) <= RING_CAPACITY
        /\ (RingPush /\ SLen(io.ring) = RING_CAPACITY) =>
              (io'.ring = io.ring /\ io'.pend # io.pend)
        /\ (RingPop /\ io.ring = <<>>) =>
              /\ io'.out = io.out
              /\ io'.silence = io.silence + (io.slots - io'.slots)
        /\ RingPop =>
              SLen(io'.out) + io'.silence + io'.slots
                  = SLen(io.out) + io.silence + io.slots
        /\ io.pend # <<>> => ENABLED RingPush
        /\ io.slots > 0 => ENABLED RingPop
        /\ InOrder(SCat(io'.out, io'.ring), io'.decoded)]_vars

\* C23 happens: samples were dropped at a full ring, the callback has
\* written silence, and samples decoded after the dropped ones were output
C23_Witness ==
    /\ io.fn = "ring"
    /\ io.silence > 0
    /\ Len(io.out) >= 2
    /\ SLen(io.out) + SLen(io.ring) + (IF io.pend = <<>> THEN 0 ELSE io.pend[2])
          < io.decoded

(***************************************************************************)
(* Teardown order of stop_sharing and stop_listening (app.rs 113-121 and   *)
(* 187-195).  "Before" is read on the step where the later event happens:  *)
(* the earlier one has already happened in the state the step starts from. *)
(***************************************************************************)
\* the encode task of s comes to its end in this step
EncoderEnds(s) == EncAlive(s) /\ encTask'[s] \in {"aborted", "done"}

\* the playback stream of l is released in this step
PlaybackReleased(l) == playback[l] = "running" /\ playback'[l] = "dropped"

\* the capture handle of s is released in this step
HandleReleased(s) == handle[s] = "held" /\ handle'[s] = "dropped"

\* C24: when a Share is stopped its capture handle has been released by the
\* time the encode task is brought to its end, and when a Listen is stopped
\* its decode task has ended by the time the playback stream is released.
C24_TeardownOrdering ==
    [][/\ \A c \in Callers :
            (StopSharingBegin(c) /\ share # None /\ EncoderEnds(share)) =>
                handle[share] = "dropped"
       /\ \A l \in Listens : PlaybackReleased(l) => ~DecAlive(l)]_vars

\* C25: stop_sharing ends the encode task, then releases the capture handle,
\* and only then shuts the router down; stop_listening ends the decode
\* task, then releases the playback stream, and only then closes the
\* endpoint.
C25_StopOrder ==
    [][/\ \A c \in Callers : StopSharingFinish(c) =>
            /\ ~EncAlive(ctx[c])
            /\ handle[ctx[c]] = "dropped"
       /\ \A c \in Callers : StopListeningFinish(c) =>
            /\ ~DecAlive(ctx[c])
            /\ playback[ctx[c]] = "dropped"
       /\ \A s \in Shares : HandleReleased(s) => ~EncAlive(s)
       /\ \A l \in Listens : PlaybackReleased(l) => ~DecAlive(l)]_vars

\* C26: shutting a Share session down ends its writers through the bus
\* alone: once every Sender is gone each writer's recv returns Closed and
\* the writer returns, so no writer is ever cut off from outside while it
\* still runs, and no running writer keeps a Sender of the bus alive.
C26_WritersEndOnClosed ==
    \A l \in Listens :
        /\ wTask[l] # "aborted"
        /\ (WriterAlive(l) /\ ~EncAlive(peer[l])) => ~BusTxAlive(peer[l])

\* the writer of l gets the listener's stream in this step
StreamAccepted(l) == wTask[l] = "accept" /\ wTask'[l] = "recv"

\* C27: a writer subscribes to the bus only once it has accepted the
\* listener's stream: when the stream is accepted the writer's position is
\* the end of the bus, so no packet published before that is sent to the
\* listener.
C27_SubscribeAfterAccept ==
    [][\A l \in Listens :
          StreamAccepted(l) => wNext'[l] >= Len(bus[peer[l]])]_vars

\* C28: the producer of a stream is moved out exactly once: the take of
\* start_listening gets it and leaves none behind, any take after that
\* would panic, start_listening never takes twice from a stream, and the
\* decode task pushes only with the producer taken.
C28_ProducerTakenOnce ==
    io.fn = "ring" =>
        /\ io.takes <= 1
        /\ ~io.panicked
        /\ io.takes = 1 <=> io.slot = "none"
        /\ io.takes = 1 <=> io.spawned
        /\ io.slot = "none" =>
              (~TakeProducer(io.slot).got /\ TakeProducer(io.slot).panicked)
        /\ io.decodes > 0 => io.takes = 1

\* C28 happens: the producer was taken from a fresh stream and the decode
\* task has pushed samples with it
C28_Witness ==
    /\ io.fn = "ring"
    /\ io.takes = 1
    /\ io.decoded = SAMPLES_PER_FRAME
    /\ io.ring # <<>>

\* the decode of a packet fails in this step
DecodeFails == RingDecode /\ io'.errors = io.errors + 1

\* C29: a packet that fails to decode is skipped: nothing of it reaches the
\* ring, the decoder stays the one the task created, "listen-ended" is not
\* emitted, and the loop goes on to the packet after it, which is decoded
\* as the next frame.
C29_DecodeErrorSkipsPacket ==
    [][(io.fn = "ring" /\ DecodeFails) =>
          /\ io'.ring = io.ring
          /\ io'.pend = <<>>
          /\ io'.decoded = io.decoded
          /\ io'.decoder = io.decoder
          /\ ~io'.ended
          /\ io'.spawned]_vars

\* C29 happens: a packet failed to decode, and the packet after it was
\* decoded and its samples were pushed to the ring
C29_Witness ==
    /\ io.fn = "ring"
    /\ io.errors = 1
    /\ io.decodes = 2
    /\ io.decoded = SAMPLES_PER_FRAME
    /\ io.pend = <<>>
    /\ SLen(io.ring) = SAMPLES_PER_FRAME
    /\ ~io.ended

\* C30: on Linux the capture main loop runs until the stop signal: while
\* the CaptureHandle of a session is held the loop has not exited and the
\* frame channel still has its Sender.
C30_LinuxLoopRunsUntilStop ==
    platform = "linux" =>
        \A s \in Shares :
            handle[s] = "held" => (capLoop[s] = "running" /\ PcmTxAlive(s))

\* C31: stop_sharing always empties the share cell: when it returns, with
\* Ok or with the error of the router's shutdown, the cell is empty, the
\* encode task of the session has ended and its capture handle is released;
\* and a start_sharing that follows a return of stop_sharing is taken up,
\* not rejected as AlreadyRunning.
C31_StopAlwaysEmptiesCell ==
    [][\A c \in Callers :
        /\ StopSharingFinish(c) =>
              /\ share' = None
              /\ encTask'[ctx[c]] \notin {"spawned", "running"}
              /\ handle'[ctx[c]] = "dropped"
              /\ ret'.cmd = "stop_sharing"
        /\ (ret.cmd = "stop_sharing" /\ StartSharingBegin(c)) =>
              (pc'[c] = "ss_bind" /\ ret' = ret)]_vars

\* C31 happens: stop_sharing has returned the error of the router's
\* shutdown for a session whose encode task it aborted, and the
\* start_sharing after it has been taken up
C31_Witness ==
    /\ ret = Return("stop_sharing", "Transport")
    /\ \E s \in Shares :
          /\ router[s] = "shutdown"
          /\ encTask[s] = "aborted"
          /\ handle[s] = "dropped"
    /\ \E c \in Callers : pc[c] = "ss_bind"

\* what a failed start has left of the sessions it created and released: the
\* session is not in the cell and has no capture, no codec task and no
\* playback stream
FailedStartClean ==
    /\ \A s \in Shares :
          router[s] = "dropped" =>
              /\ share # s
              /\ encTask[s] = "none"
              /\ handle[s] = "none"
              /\ capLoop[s] = "none"
    /\ \A l \in Listens :
          endpoint[l] = "dropped" =>
              /\ listen # l
              /\ decTask[l] = "none"
              /\ playback[l] = "none"

\* C32: a failed start leaves nothing behind: the session a failing
\* start_sharing or start_listening had created is released, is not in the
\* cell and has no codec task, and the receive task that a failing
\* start_listening had spawned with the session eventually terminates.
C32_FailedStartLeavesNothing ==
    /\ []FailedStartClean
    /\ \A l \in Listens :
          (endpoint[l] = "dropped" /\ RecvAlive(l)) ~> ~RecvAlive(l)

\* Decoded samples are interleaved stereo: those with an odd number are of
\* the left channel, those with an even number of the right.  The slots of
\* the output, counted from 0 over all callbacks, are interleaved as well:
\* the even ones are of the left channel (a callback's buffer holds whole
\* stereo frames).  The runs rs, written from slot p on, keep the channels.
RECURSIVE AlignedAt(_, _)
AlignedAt(rs, p) ==
    \/ rs = <<>>
    \/ /\ (Head(rs)[1] + p) % 2 = 1
       /\ AlignedAt(Tail(rs), p + Head(rs)[2])

\* C33: playback keeps the stereo channels aligned: whatever the
\* interleaving of pushes (dropped on a full ring) and pops (silence on an
\* empty ring), the callback writes a left-channel sample only to an even
\* output slot and a right-channel sample only to an odd one.
C33_ChannelAlignment ==
    [][(io.fn = "ring" /\ RingPop) =>
          AlignedAt(STake(io.ring, SLen(io'.out) - SLen(io.out)),
                    SLen(io.out) + io.silence)]_vars

==========================================================================
